---- MODULE Spec2Model ----
(***************************************************************************)
(* Model of github.com/denisbrodbeck/atomfeed: the identifier scheme       *)
(* (NewFeedID, NewEntryID), the content classifier (NewContent), the       *)
(* entity builders, the verification engine (Feed.Verify, Entry.Verify and *)
(* the check* helpers) and the serializer (Feed.Encode).                   *)
(*                                                                         *)
(* Go values are modelled as follows.                                      *)
(*   string      a TLA+ string (Len, SubSeq and \o work on strings in TLC) *)
(*   []byte      a record [isNil, bytes]: a nil slice and an empty slice   *)
(*               are different values with the same length 0               *)
(*   *T          the record Nil, or the record of T's fields               *)
(*   error       Nil, or a record [msg |-> the text of err.Error()]        *)
(*   time.Time   a record [day, sec, nsec, off]: the instant as days since *)
(*               0001-01-01 UTC, second of that day and nanosecond, and    *)
(*               the zone offset of its Location in seconds east of UTC    *)
(***************************************************************************)
EXTENDS Integers, Sequences, FiniteSets, TLC

VARIABLES
  feed,     \* the Feed tree the caller holds
  verr,     \* what f.Verify() returned for this tree, or NotCalled
  entry,    \* an Entry the caller holds
  everr,    \* what e.Verify() returned for this entry, or NotCalled
  call,     \* the last call of a constructor function, with its arguments
  ret       \* what that call returned

vars == <<feed, verr, entry, everr, call, ret>>

\* The nil pointer, the nil error, the nil *VerificationError.
Nil == [nil |-> TRUE]

\* No Verify result is held for the current tree.
NotCalled == [notCalled |-> TRUE]

\* The call has not returned yet.
Pending == [pending |-> TRUE]

\* No constructor function is being called.
NoCall == [fn |-> "none"]

----------------------------------------------------------------------------
(* Package strings.                                                        *)

HasPrefix(s, prefix) ==
  Len(s) >= Len(prefix) /\ SubSeq(s, 1, Len(prefix)) = prefix

HasSuffix(s, suffix) ==
  Len(s) >= Len(suffix) /\ SubSeq(s, Len(s) - Len(suffix) + 1, Len(s)) = suffix

Contains(s, substr) ==
  \E i \in 1..(Len(s) - Len(substr) + 1) : SubSeq(s, i, i + Len(substr) - 1) = substr

upperLetters == "ABCDEFGHIJKLMNOPQRSTUVWXYZ"

lowerLetters == "abcdefghijklmnopqrstuvwxyz"

toLowerChar(c) ==
  IF \E i \in 1..Len(upperLetters) : SubSeq(upperLetters, i, i) = c
  THEN LET i == CHOOSE j \in 1..Len(upperLetters) : SubSeq(upperLetters, j, j) = c
       IN  SubSeq(lowerLetters, i, i)
  ELSE c

RECURSIVE ToLower(_)
ToLower(s) ==
  IF s = "" THEN ""
  ELSE toLowerChar(SubSeq(s, 1, 1)) \o ToLower(SubSeq(s, 2, Len(s)))

\* strings.Join(elems, sep)
RECURSIVE Join(_, _)
Join(elems, sep) ==
  IF Len(elems) = 0 THEN ""
  ELSE IF Len(elems) = 1 THEN elems[1]
  ELSE elems[1] \o sep \o Join(Tail(elems), sep)

\* fmt's %q of a string that holds no quote, backslash or control character.
Quote(s) == "\"" \o s \o "\""

----------------------------------------------------------------------------
(* Byte slices, string(value) and encoding/base64.                         *)

NilBytes == [isNil |-> TRUE, bytes |-> <<>>]

Bytes(b) == [isNil |-> FALSE, bytes |-> b]

hexDigits == "0123456789abcdef"

\* Bytes 32..95 and 97..126 as the characters they are in ASCII.
printableLow == " !\"#$%&'()*+,-./0123456789:;<=>?@ABCDEFGHIJKLMNOPQRSTUVWXYZ[\\]^_"

printableHigh == "abcdefghijklmnopqrstuvwxyz{|}~"

\* The one-byte string of byte b. A byte that has no character in a TLA+
\* string literal is written \xNN, as Go quotes it.
byteChar(b) ==
  IF b >= 32 /\ b <= 95 THEN SubSeq(printableLow, b - 31, b - 31)
  ELSE IF b >= 97 /\ b <= 126 THEN SubSeq(printableHigh, b - 96, b - 96)
  ELSE "\\x" \o SubSeq(hexDigits, (b \div 16) + 1, (b \div 16) + 1)
             \o SubSeq(hexDigits, (b % 16) + 1, (b % 16) + 1)

\* string(value): the bytes of value, unchanged, as a string.
RECURSIVE bytesToString(_)
bytesToString(b) ==
  IF Len(b) = 0 THEN "" ELSE byteChar(b[1]) \o bytesToString(Tail(b))

encodeStd == "ABCDEFGHIJKLMNOPQRSTUVWXYZabcdefghijklmnopqrstuvwxyz0123456789+/"

encodeChar(i) == SubSeq(encodeStd, i + 1, i + 1)

\* base64.StdEncoding.EncodeToString(src): three bytes make four characters,
\* a last group of one or two bytes is padded with '='.
RECURSIVE EncodeToString(_)
EncodeToString(src) ==
  IF Len(src) = 0 THEN ""
  ELSE IF Len(src) = 1 THEN
    LET v == src[1] * 65536
    IN  encodeChar(v \div 262144) \o encodeChar((v \div 4096) % 64) \o "=="
  ELSE IF Len(src) = 2 THEN
    LET v == src[1] * 65536 + src[2] * 256
    IN  encodeChar(v \div 262144) \o encodeChar((v \div 4096) % 64)
          \o encodeChar((v \div 64) % 64) \o "="
  ELSE
    LET v == src[1] * 65536 + src[2] * 256 + src[3]
    IN  encodeChar(v \div 262144) \o encodeChar((v \div 4096) % 64)
          \o encodeChar((v \div 64) % 64) \o encodeChar(v % 64)
          \o EncodeToString(SubSeq(src, 4, Len(src)))

----------------------------------------------------------------------------
(* The records of the tree.                                                *)

\* type Content: Type, Source, the two inline slots and the unexported flag.
Content(type, source, value, valueXML, base64Encoded) ==
  [Type |-> type, Source |-> source, Value |-> value, ValueXML |-> valueXML,
   base64Encoded |-> base64Encoded]

\* type ID
ID(value) == [Value |-> value]

\* type Person
Person(name, email, uri) == [Name |-> name, Email |-> email, URI |-> uri]

\* type TextConstruct
TextConstruct(type, value) == [Type |-> type, Value |-> value]

\* type Date
Date(value) == [Value |-> value]

\* type Icon, type Logo
URIElement(value) == [Value |-> value]

\* type Link
Link(href, rel, type) ==
  [Href |-> href, Rel |-> rel, Type |-> type, HrefLang |-> "", Title |-> "", Length |-> ""]

\* type Category
Category(term) == [Term |-> term, Scheme |-> "", Label |-> ""]

\* type Generator
Generator(uri, version, value) == [URI |-> uri, Version |-> version, Value |-> value]

\* Source{}: the zero value of type Source.
ZeroSource ==
  [ID |-> Nil, Generator |-> Nil, Links |-> <<>>, Updated |-> Nil, Title |-> Nil,
   Subtitle |-> Nil, Icon |-> Nil, Logo |-> Nil, Categories |-> <<>>, Author |-> Nil,
   Contributor |-> <<>>, Copyright |-> Nil]

\* Entry{}: the zero value of type Entry.
ZeroEntry ==
  [ID |-> ID(""), Title |-> Nil, Links |-> <<>>, Published |-> Nil, Updated |-> Nil,
   Author |-> Nil, Categories |-> <<>>, Copyright |-> Nil, Contributor |-> <<>>,
   Source |-> Nil, Summary |-> Nil, Content |-> Nil]

\* Feed{}: the zero value of type Feed.
ZeroFeed ==
  [Namespace |-> "", ID |-> ID(""), Generator |-> Nil, Links |-> <<>>, Updated |-> Nil,
   Title |-> Nil, Subtitle |-> Nil, Icon |-> Nil, Logo |-> Nil, Categories |-> <<>>,
   Author |-> Nil, Contributor |-> <<>>, Copyright |-> Nil, Entries |-> <<>>]

----------------------------------------------------------------------------
(* Package time: the civil date and clock of a Time in its own Location.   *)

Time(day, sec, nsec, off) == [day |-> day, sec |-> sec, nsec |-> nsec, off |-> off]

\* The zero Time: January 1, year 1, 00:00:00 UTC.
ZeroTime == Time(0, 0, 0, 0)

\* t.IsZero(): the instant is the zero instant, whatever the Location.
IsZero(t) == t.day = 0 /\ t.sec = 0 /\ t.nsec = 0

\* t.UTC(): the same instant with Location UTC.
UTC(t) == [t EXCEPT !.off = 0]

isLeap(year) == year % 4 = 0 /\ (year % 100 # 0 \/ year % 400 = 0)

\* daysBefore[m+1] is the number of days in a non-leap year before month m+1.
daysBefore == <<0, 31, 59, 90, 120, 151, 181, 212, 243, 273, 304, 334, 365>>

\* The year and the day within the year (0-based) of day number d, counted
\* from 0001-01-01, by cycles of 400, 100, 4 and 1 years.
yearDay(d) ==
  LET n400 == d \div 146097
      d1   == d - 146097 * n400
      q100 == d1 \div 36524
      n100 == q100 - (q100 \div 4)
      d2   == d1 - 36524 * n100
      n4   == d2 \div 1461
      d3   == d2 - 1461 * n4
      q1   == d3 \div 365
      n1   == q1 - (q1 \div 4)
  IN  [year |-> 400 * n400 + 100 * n100 + 4 * n4 + n1 + 1, yday |-> d3 - 365 * n1]

\* The month (1..12) and day of month of day yday of year.
monthDay(year, yday) ==
  IF isLeap(year) /\ yday = 31 + 29 - 1 THEN [month |-> 2, day |-> 29]
  ELSE
    LET day   == IF isLeap(year) /\ yday > 31 + 29 - 1 THEN yday - 1 ELSE yday
        m     == day \div 31
        end   == daysBefore[m + 2]
        month == IF day >= end THEN m + 1 ELSE m
        begin == IF day >= end THEN end ELSE daysBefore[m + 1]
    IN  [month |-> month + 1, day |-> day - begin + 1]

\* t.Date() and t.Clock(): the fields Format prints, in t's Location.
civil(t) ==
  LET local == t.sec + t.off
      day   == t.day + (local \div 86400)
      sec   == local % 86400
      yd    == yearDay(day)
      md    == monthDay(yd.year, yd.yday)
  IN  [year |-> yd.year, month |-> md.month, day |-> md.day,
       hour |-> sec \div 3600, min |-> (sec % 3600) \div 60, sec |-> sec % 60]

digit(n) == SubSeq("0123456789", n + 1, n + 1)

pad2(n) == digit((n \div 10) % 10) \o digit(n % 10)

pad4(n) == digit((n \div 1000) % 10) \o digit((n \div 100) % 10) \o pad2(n)

\* t.Format("20060102150405")
FormatStamp(t) ==
  LET c == civil(t)
  IN  pad4(c.year) \o pad2(c.month) \o pad2(c.day) \o pad2(c.hour) \o pad2(c.min) \o pad2(c.sec)

\* t.Format("2006-01-02")
FormatDate(t) ==
  LET c == civil(t)
  IN  pad4(c.year) \o "-" \o pad2(c.month) \o "-" \o pad2(c.day)

\* t.Format(time.RFC3339): the date and clock of t in its Location, then Z
\* for the offset zero and the offset as +hh:mm or -hh:mm otherwise.
FormatRFC3339(t) ==
  LET c   == civil(t)
      abs == IF t.off < 0 THEN 0 - t.off ELSE t.off
  IN  pad4(c.year) \o "-" \o pad2(c.month) \o "-" \o pad2(c.day) \o "T"
        \o pad2(c.hour) \o ":" \o pad2(c.min) \o ":" \o pad2(c.sec)
        \o (IF t.off = 0 THEN "Z"
            ELSE (IF t.off < 0 THEN "-" ELSE "+")
                   \o pad2(abs \div 3600) \o ":" \o pad2((abs % 3600) \div 60))

isDigits(s) == \A i \in 1..Len(s) : Contains("0123456789", SubSeq(s, i, i))

digitValue(c) == CHOOSE n \in 0..9 : digit(n) = c

RECURSIVE atoi(_)
atoi(s) ==
  IF s = "" THEN 0
  ELSE 10 * atoi(SubSeq(s, 1, Len(s) - 1)) + digitValue(SubSeq(s, Len(s), Len(s)))

\* The number of days of month in year.
daysIn(month, year) ==
  IF month = 2 /\ isLeap(year) THEN 29 ELSE daysBefore[month + 1] - daysBefore[month]

\* The day number, counted from 0001-01-01, of a civil date.
daysSinceEpoch(year, month, day) ==
  LET y == year - 1
  IN  365 * y + (y \div 4) - (y \div 100) + (y \div 400) + daysBefore[month]
        + (IF isLeap(year) /\ month >= 3 THEN 1 ELSE 0) + day - 1

\* The error of time.Parse.
parseError(value) ==
  [msg |-> "parsing time " \o Quote(value) \o " as \"2006-01-02T15:04:05Z07:00\""]

\* time.Parse(time.RFC3339, value) for a value without fractional seconds:
\* [err, t]. The text is YYYY-MM-DDThh:mm:ss, then Z or a numeric offset
\* +hh:mm or -hh:mm, every field in its range.
ParseRFC3339(value) ==
  LET n       == Len(value)
      shaped  == /\ n \in {20, 25}
                 /\ isDigits(SubSeq(value, 1, 4)) /\ SubSeq(value, 5, 5) = "-"
                 /\ isDigits(SubSeq(value, 6, 7)) /\ SubSeq(value, 8, 8) = "-"
                 /\ isDigits(SubSeq(value, 9, 10)) /\ SubSeq(value, 11, 11) = "T"
                 /\ isDigits(SubSeq(value, 12, 13)) /\ SubSeq(value, 14, 14) = ":"
                 /\ isDigits(SubSeq(value, 15, 16)) /\ SubSeq(value, 17, 17) = ":"
                 /\ isDigits(SubSeq(value, 18, 19))
                 /\ IF n = 20 THEN SubSeq(value, 20, 20) = "Z"
                    ELSE /\ SubSeq(value, 20, 20) \in {"+", "-"}
                         /\ isDigits(SubSeq(value, 21, 22)) /\ SubSeq(value, 23, 23) = ":"
                         /\ isDigits(SubSeq(value, 24, 25))
      year    == atoi(SubSeq(value, 1, 4))
      month   == atoi(SubSeq(value, 6, 7))
      day     == atoi(SubSeq(value, 9, 10))
      hour    == atoi(SubSeq(value, 12, 13))
      min     == atoi(SubSeq(value, 15, 16))
      sec     == atoi(SubSeq(value, 18, 19))
      offAbs  == IF n = 20 THEN 0
                 ELSE atoi(SubSeq(value, 21, 22)) * 3600 + atoi(SubSeq(value, 24, 25)) * 60
      off     == IF n = 25 /\ SubSeq(value, 20, 20) = "-" THEN 0 - offAbs ELSE offAbs
      inRange == /\ month \in 1..12 /\ day >= 1 /\ day <= daysIn(month, year)
                 /\ hour < 24 /\ min < 60 /\ sec < 60
                 /\ (n = 25 => (atoi(SubSeq(value, 21, 22)) < 24 /\ atoi(SubSeq(value, 24, 25)) < 60))
      utc     == hour * 3600 + min * 60 + sec - off
  IN  IF ~shaped THEN [err |-> parseError(value), t |-> ZeroTime]
      ELSE IF ~inRange THEN [err |-> parseError(value), t |-> ZeroTime]
      ELSE [err |-> Nil,
            t   |-> Time(daysSinceEpoch(year, month, day) + (utc \div 86400), utc % 86400, 0, off)]

----------------------------------------------------------------------------
(* The identifier scheme.                                                  *)

NewID(id) == ID(id)

\* NewFeedID printing the date of the instant in UTC.
NewFeedIDUTC(authorityName, creationTime, specific) ==
  ID("tag:" \o authorityName \o "," \o FormatDate(UTC(creationTime)) \o ":" \o specific)

NewFeedID(authorityName, creationTime, specific) ==
  ID("tag:" \o authorityName \o "," \o FormatDate(creationTime) \o ":" \o specific)

\* NewEntryID printing the day only.
NewEntryIDDateOnly(feedID, entryCreationTime) ==
  ID(feedID.Value \o ".post-" \o SubSeq(FormatStamp(entryCreationTime), 1, 8))

\* NewEntryID printing the instant in UTC.
NewEntryIDUTC(feedID, entryCreationTime) ==
  ID(feedID.Value \o ".post-" \o FormatStamp(UTC(entryCreationTime)))

NewEntryID(feedID, entryCreationTime) ==
  ID(feedID.Value \o ".post-" \o FormatStamp(entryCreationTime))

----------------------------------------------------------------------------
(* The content classifier.                                                 *)

\* NewContent with the plain-text case tried before the markup case.
NewContentPlainFirst(contentType, source, value) ==
  IF source = "" /\ (value.isNil \/ Len(value.bytes) = 0) THEN Nil
  ELSE IF \/ contentType = ""
          \/ contentType = "text"
          \/ contentType = "html"
          \/ HasPrefix(ToLower(contentType), "text/")
  THEN Content(contentType, source, bytesToString(value.bytes), "", FALSE)
  ELSE IF \/ contentType = "xhtml"
          \/ contentType = "text/xml"
          \/ contentType = "application/xml"
          \/ contentType = "text/xml-external-parsed-entity"
          \/ contentType = "application/xml-external-parsed-entity"
          \/ contentType = "application/xml-dtd"
          \/ HasSuffix(ToLower(contentType), "+xml")
          \/ HasSuffix(ToLower(contentType), "/xml")
  THEN Content(contentType, source, "", bytesToString(value.bytes), FALSE)
  ELSE Content(contentType, source, EncodeToString(value.bytes), "", TRUE)

\* NewContent storing a binary payload as it is, not base64-encoded.
NewContentRawBinary(contentType, source, value) ==
  IF source = "" /\ (value.isNil \/ Len(value.bytes) = 0) THEN Nil
  ELSE IF \/ contentType = "xhtml"
          \/ contentType = "text/xml"
          \/ contentType = "application/xml"
          \/ contentType = "text/xml-external-parsed-entity"
          \/ contentType = "application/xml-external-parsed-entity"
          \/ contentType = "application/xml-dtd"
          \/ HasSuffix(ToLower(contentType), "+xml")
          \/ HasSuffix(ToLower(contentType), "/xml")
  THEN Content(contentType, source, "", bytesToString(value.bytes), FALSE)
  ELSE IF \/ contentType = ""
          \/ contentType = "text"
          \/ contentType = "html"
          \/ HasPrefix(ToLower(contentType), "text/")
  THEN Content(contentType, source, bytesToString(value.bytes), "", FALSE)
  ELSE Content(contentType, source, bytesToString(value.bytes), "", TRUE)

\* NewContent without the +xml suffix among the markup cases.
NewContentNoPlusXML(contentType, source, value) ==
  IF source = "" /\ (value.isNil \/ Len(value.bytes) = 0) THEN Nil
  ELSE IF \/ contentType = "xhtml"
          \/ contentType = "text/xml"
          \/ contentType = "application/xml"
          \/ contentType = "text/xml-external-parsed-entity"
          \/ contentType = "application/xml-external-parsed-entity"
          \/ contentType = "application/xml-dtd"
          \/ HasSuffix(ToLower(contentType), "/xml")
  THEN Content(contentType, source, "", bytesToString(value.bytes), FALSE)
  ELSE IF \/ contentType = ""
          \/ contentType = "text"
          \/ contentType = "html"
          \/ HasPrefix(ToLower(contentType), "text/")
  THEN Content(contentType, source, bytesToString(value.bytes), "", FALSE)
  ELSE Content(contentType, source, EncodeToString(value.bytes), "", TRUE)

\* NewContent returning nil for every empty payload, whatever the source.
NewContentNilOnEmptyValue(contentType, source, value) ==
  IF value.isNil \/ Len(value.bytes) = 0 THEN Nil
  ELSE IF \/ contentType = "xhtml"
          \/ contentType = "text/xml"
          \/ contentType = "application/xml"
          \/ contentType = "text/xml-external-parsed-entity"
          \/ contentType = "application/xml-external-parsed-entity"
          \/ contentType = "application/xml-dtd"
          \/ HasSuffix(ToLower(contentType), "+xml")
          \/ HasSuffix(ToLower(contentType), "/xml")
  THEN Content(contentType, source, "", bytesToString(value.bytes), FALSE)
  ELSE IF \/ contentType = ""
          \/ contentType = "text"
          \/ contentType = "html"
          \/ HasPrefix(ToLower(contentType), "text/")
  THEN Content(contentType, source, bytesToString(value.bytes), "", FALSE)
  ELSE Content(contentType, source, EncodeToString(value.bytes), "", TRUE)

\* NewContent keeping a copy of a markup payload in the plain-text slot.
NewContentBothSlots(contentType, source, value) ==
  IF source = "" /\ (value.isNil \/ Len(value.bytes) = 0) THEN Nil
  ELSE IF \/ contentType = "xhtml"
          \/ contentType = "text/xml"
          \/ contentType = "application/xml"
          \/ contentType = "text/xml-external-parsed-entity"
          \/ contentType = "application/xml-external-parsed-entity"
          \/ contentType = "application/xml-dtd"
          \/ HasSuffix(ToLower(contentType), "+xml")
          \/ HasSuffix(ToLower(contentType), "/xml")
  THEN Content(contentType, source, bytesToString(value.bytes), bytesToString(value.bytes), FALSE)
  ELSE IF \/ contentType = ""
          \/ contentType = "text"
          \/ contentType = "html"
          \/ HasPrefix(ToLower(contentType), "text/")
  THEN Content(contentType, source, bytesToString(value.bytes), "", FALSE)
  ELSE Content(contentType, source, EncodeToString(value.bytes), "", TRUE)

NewContent(contentType, source, value) ==
  IF source = "" /\ (value.isNil \/ Len(value.bytes) = 0) THEN Nil
  ELSE IF \/ contentType = "xhtml"
          \/ contentType = "text/xml"
          \/ contentType = "application/xml"
          \/ contentType = "text/xml-external-parsed-entity"
          \/ contentType = "application/xml-external-parsed-entity"
          \/ contentType = "application/xml-dtd"
          \/ HasSuffix(ToLower(contentType), "+xml")
          \/ HasSuffix(ToLower(contentType), "/xml")
  THEN Content(contentType, source, "", bytesToString(value.bytes), FALSE)
  ELSE IF \/ contentType = ""
          \/ contentType = "text"
          \/ contentType = "html"
          \/ HasPrefix(ToLower(contentType), "text/")
  THEN Content(contentType, source, bytesToString(value.bytes), "", FALSE)
  ELSE Content(contentType, source, EncodeToString(value.bytes), "", TRUE)

----------------------------------------------------------------------------
(* The entity builders.                                                    *)

\* NewDate without the test for the zero time.
NewDateZeroRendered(t) == Date(FormatRFC3339(t))

NewDate(t) == IF IsZero(t) THEN Nil ELSE Date(FormatRFC3339(t))

NewPerson(name, email, uri) == Person(name, email, uri)

NewCategory(category) == Category(category)

termsToCategories(categories) ==
  [i \in 1..Len(categories) |-> NewCategory(categories[i])]

NewEntry(id, title, permalink, author, updated, published, categories, summary, content) ==
  [ZeroEntry EXCEPT !.ID = id,
                    !.Title = TextConstruct("", title),
                    !.Links = <<Link(permalink, "alternate", "text/html")>>,
                    !.Published = NewDate(published),
                    !.Updated = NewDate(updated),
                    !.Author = author,
                    !.Categories = termsToCategories(categories),
                    !.Summary = NewContent("html", "", summary),
                    !.Content = NewContent("html", "", content)]

NewFeed(id, author, title, subtitle, baseURL, feedURL, updated, entries) ==
  [ZeroFeed EXCEPT !.Namespace = "http://www.w3.org/2005/Atom",
                   !.ID = id,
                   !.Title = TextConstruct("", title),
                   !.Subtitle = TextConstruct("", subtitle),
                   !.Author = author,
                   !.Links = <<Link(baseURL, "alternate", "text/html"),
                               Link(feedURL, "self", "application/atom+xml")>>,
                   !.Updated = NewDate(updated),
                   !.Entries = entries,
                   !.Generator = Generator("https://github.com/denisbrodbeck/atomfeed",
                                           "1.0", "atomfeed package")]

----------------------------------------------------------------------------
(* The verification engine.                                                *)

\* fmt.Errorf: an error with this text.
Errorf(msg) == [msg |-> msg]

\* url.Parse(rawurl), its error only: a reference that starts with a colon
\* has no scheme before it; every other reference of the model parses.
urlParse(rawurl) ==
  IF HasPrefix(rawurl, ":")
  THEN Errorf("parse " \o Quote(rawurl) \o ": missing protocol scheme")
  ELSE Nil

\* mail.ParseAddress(address), its error only: an address needs an '@'.
mailParseAddress(address) ==
  IF ~Contains(address, "@") THEN Errorf("mail: missing '@' or angle-addr") ELSE Nil

checkURI(uri) ==
  IF uri = "" THEN Nil
  ELSE IF urlParse(uri) # Nil
  THEN Errorf(Quote(uri) \o " is not a valid URI: " \o urlParse(uri).msg)
  ELSE Nil

checkEmail(email) ==
  IF email = "" THEN Nil
  ELSE IF mailParseAddress(email) # Nil
  THEN Errorf(Quote(email) \o " is not a valid email address: " \o mailParseAddress(email).msg)
  ELSE Nil

checkPerson(p) ==
  IF p = Nil THEN Nil
  ELSE IF p.Name = "" THEN Errorf("name cannot be empty")
  ELSE IF checkEmail(p.Email) # Nil THEN checkEmail(p.Email)
  ELSE checkURI(p.URI)

checkID(id) ==
  IF id.Value = "" THEN Errorf("ID cannot be empty") ELSE checkURI(id.Value)

\* checkDate without the test for the zero instant.
checkDateZeroAccepted(date) ==
  LET r == ParseRFC3339(date)
  IN  IF r.err # Nil THEN Errorf("invalid date: " \o r.err.msg) ELSE Nil

checkDate(date) ==
  LET r == ParseRFC3339(date)
  IN  IF r.err # Nil THEN Errorf("invalid date: " \o r.err.msg)
      ELSE IF IsZero(r.t) THEN Errorf("invalid date " \o Quote(date) \o ": date is zero")
      ELSE Nil

\* The switch on c.Type without its slot checks.
checkContentTypeSlotsUnchecked(c) ==
  IF c.Type \in {"", "text", "html", "xhtml"} THEN Nil
  ELSE IF ~Contains(c.Type, "/") THEN Errorf("invalid mime type: " \o c.Type)
  ELSE Nil

\* The switch on c.Type without its default case.
checkContentTypeAnyToken(c) ==
  IF c.Type \in {"", "text", "html"} THEN
    IF c.ValueXML # ""
    THEN Errorf("field \"ValueXML\" must be empty when using type " \o Quote(c.Type)
                  \o " - use field \"Value\" instead")
    ELSE Nil
  ELSE IF c.Type = "xhtml" THEN
    IF c.Value # ""
    THEN Errorf("field \"Value\" must be empty when using type \"xhtml\""
                  \o " - use field \"ValueXML\" instead")
    ELSE Nil
  ELSE Nil

\* What checkContent returns once the src attribute has been dealt with: the
\* switch on c.Type. (The dash of the two messages is written in ASCII.)
checkContentType(c) ==
  IF c.Type \in {"", "text", "html"} THEN
    IF c.ValueXML # ""
    THEN Errorf("field \"ValueXML\" must be empty when using type " \o Quote(c.Type)
                  \o " - use field \"Value\" instead")
    ELSE Nil
  ELSE IF c.Type = "xhtml" THEN
    IF c.Value # ""
    THEN Errorf("field \"Value\" must be empty when using type \"xhtml\""
                  \o " - use field \"ValueXML\" instead")
    ELSE Nil
  ELSE IF ~Contains(c.Type, "/") THEN Errorf("invalid mime type: " \o c.Type)
  ELSE Nil

\* checkContent without the block that deals with the src attribute.
checkContentSourceUnchecked(c) ==
  IF c = Nil THEN Nil ELSE checkContentType(c)

checkContent(c) ==
  IF c = Nil THEN Nil
  ELSE IF c.Source # "" /\ checkURI(c.Source) # Nil THEN checkURI(c.Source)
  ELSE IF c.Source # "" /\ (c.Value # "" \/ c.ValueXML # "")
  THEN Errorf("invalid content: src attribute is present, therefore content must be empty")
  ELSE IF c.Source # "" /\ c.Type # "" /\ ~Contains(c.Type, "/")
  THEN Errorf("invalid mime type: " \o c.Type)
  ELSE checkContentType(c)

\* The author-existence error.
missingAuthor ==
  Errorf("missing author field: an atom feed must have an author unless all of its entry children have an author")

\* checkAuthorsExist satisfied as soon as one entry has an author.
checkAuthorsExistAnyEntry(f) ==
  LET hasFeedAuthor == f.Author # Nil /\ f.Author.Name # ""
  IN  IF ~hasFeedAuthor THEN
        IF Len(f.Entries) = 0 THEN missingAuthor
        ELSE IF \A i \in 1..Len(f.Entries) :
                  f.Entries[i].Author = Nil \/ f.Entries[i].Author.Name = ""
        THEN missingAuthor
        ELSE Nil
      ELSE Nil

\* checkAuthorsExist without the case of a feed that has no entries.
checkAuthorsExistNoEmptyCase(f) ==
  LET hasFeedAuthor == f.Author # Nil /\ f.Author.Name # ""
  IN  IF ~hasFeedAuthor THEN
        IF \E i \in 1..Len(f.Entries) :
             f.Entries[i].Author = Nil \/ f.Entries[i].Author.Name = ""
        THEN missingAuthor
        ELSE Nil
      ELSE Nil

checkAuthorsExist(f) ==
  LET hasFeedAuthor == f.Author # Nil /\ f.Author.Name # ""
  IN  IF ~hasFeedAuthor THEN
        IF Len(f.Entries) = 0 THEN missingAuthor
        ELSE IF \E i \in 1..Len(f.Entries) :
                  f.Entries[i].Author = Nil \/ f.Entries[i].Author.Name = ""
        THEN missingAuthor
        ELSE Nil
      ELSE Nil

\* One step of a Verify: the error appended to errors, if there is one.
appendIf(err, prefix) == IF err # Nil THEN <<Errorf(prefix \o err.msg)>> ELSE <<>>

\* if len(errors) > 0 { return &VerificationError{Errors: errors} }; return nil
\* The result of Verify as a record in every case, its list empty or not.
verificationResultAlwaysRecord(errors) == [Errors |-> errors]

verificationResult(errors) == IF Len(errors) > 0 THEN [Errors |-> errors] ELSE Nil

\* VerificationError.Error()
VerificationErrorString(e) == Join([i \in 1..Len(e.Errors) |-> e.Errors[i].msg], "\n")

\* The summary rule applied to content with a src attribute only.
summaryErrorsSourceOnly(e) ==
  IF e.Content # Nil THEN
    IF e.Content.Source # "" THEN
      IF e.Summary = Nil \/ e.Summary.Value = ""
      THEN <<Errorf("entry: need a summary because content has src attribute set")>>
      ELSE <<>>
    ELSE <<>>
  ELSE <<>>

\* The summary rule at the end of Entry.Verify.
summaryErrors(e) ==
  IF e.Content # Nil THEN
    IF e.Content.Source # "" THEN
      IF e.Summary = Nil \/ e.Summary.Value = ""
      THEN <<Errorf("entry: need a summary because content has src attribute set")>>
      ELSE <<>>
    ELSE IF e.Content.base64Encoded THEN
      IF e.Summary = Nil \/ e.Summary.Value = ""
      THEN <<Errorf("entry: need a summary because content is base64 encoded")>>
      ELSE <<>>
    ELSE <<>>
  ELSE <<>>

\* Entry.Verify
EntryVerify(e) ==
  verificationResult(
    appendIf(checkID(e.ID), "entry: ")
    \o appendIf(checkContent(e.Content), "entry: ")
    \o appendIf(checkPerson(e.Author), "entry: author: ")
    \o (IF e.Title = Nil \/ e.Title.Value = ""
        THEN <<Errorf("entry: missing title")>> ELSE <<>>)
    \o (IF e.Updated = Nil THEN <<Errorf("entry: missing updated date")>>
        ELSE appendIf(checkDate(e.Updated.Value), "entry: updated: "))
    \o (IF e.Published # Nil
        THEN appendIf(checkDate(e.Published.Value), "entry: published: ") ELSE <<>>)
    \o summaryErrors(e))

RECURSIVE joinTerms(_)
joinTerms(categories) ==
  IF Len(categories) = 0 THEN ""
  ELSE IF Len(categories) = 1 THEN categories[1].Term
  ELSE categories[1].Term \o "," \o joinTerms(Tail(categories))

\* Entry.String
EntryString(e) ==
  "ID: " \o Quote(e.ID.Value)
    \o ", Title: " \o Quote(IF e.Title # Nil THEN e.Title.Value ELSE "")
    \o ", Updated: " \o Quote(IF e.Updated # Nil THEN e.Updated.Value ELSE "")
    \o ", Published: " \o Quote(IF e.Published # Nil THEN e.Published.Value ELSE "")
    \o ", Author: " \o Quote(IF e.Author # Nil THEN e.Author.Name ELSE "")
    \o ", Categories: " \o Quote(joinTerms(e.Categories))

\* The loop over f.Entries leaving at the first entry with errors.
RECURSIVE entryErrorsStopAtFirst(_)
entryErrorsStopAtFirst(entries) ==
  IF Len(entries) = 0 THEN <<>>
  ELSE LET err == EntryVerify(entries[1])
       IN  IF err # Nil
           THEN <<Errorf("errors for entry [" \o EntryString(entries[1]) \o "]\n"
                           \o VerificationErrorString(err))>>
           ELSE entryErrorsStopAtFirst(Tail(entries))

\* The loop over f.Entries at the end of Feed.Verify.
RECURSIVE entryErrors(_)
entryErrors(entries) ==
  IF Len(entries) = 0 THEN <<>>
  ELSE LET err == EntryVerify(entries[1])
       IN  (IF err # Nil
            THEN <<Errorf("errors for entry [" \o EntryString(entries[1]) \o "]\n"
                            \o VerificationErrorString(err))>>
            ELSE <<>>)
           \o entryErrors(Tail(entries))

\* Feed.Verify with a rule for a feed without links.
FeedVerifyRequiringLinks(f) ==
  verificationResult(
    appendIf(checkID(f.ID), "feed: ")
    \o appendIf(checkAuthorsExist(f), "feed: ")
    \o appendIf(checkPerson(f.Author), "feed: author: ")
    \o (IF f.Logo # Nil THEN appendIf(checkURI(f.Logo.Value), "feed: logo: ") ELSE <<>>)
    \o (IF f.Icon # Nil THEN appendIf(checkURI(f.Icon.Value), "feed: icon: ") ELSE <<>>)
    \o (IF f.Title = Nil \/ f.Title.Value = ""
        THEN <<Errorf("feed: missing title")>> ELSE <<>>)
    \o (IF f.Updated = Nil THEN <<Errorf("feed: missing updated date")>>
        ELSE appendIf(checkDate(f.Updated.Value), "feed: updated: "))
    \o (IF Len(f.Links) = 0 THEN <<Errorf("feed: missing link")>> ELSE <<>>)
    \o entryErrors(f.Entries))

\* Feed.Verify
FeedVerify(f) ==
  verificationResult(
    appendIf(checkID(f.ID), "feed: ")
    \o appendIf(checkAuthorsExist(f), "feed: ")
    \o appendIf(checkPerson(f.Author), "feed: author: ")
    \o (IF f.Logo # Nil THEN appendIf(checkURI(f.Logo.Value), "feed: logo: ") ELSE <<>>)
    \o (IF f.Icon # Nil THEN appendIf(checkURI(f.Icon.Value), "feed: icon: ") ELSE <<>>)
    \o (IF f.Title = Nil \/ f.Title.Value = ""
        THEN <<Errorf("feed: missing title")>> ELSE <<>>)
    \o (IF f.Updated = Nil THEN <<Errorf("feed: missing updated date")>>
        ELSE appendIf(checkDate(f.Updated.Value), "feed: updated: "))
    \o entryErrors(f.Entries))

----------------------------------------------------------------------------
(* The serializer: Encode and the XML text package encoding/xml writes for *)
(* the struct tags of doc.go, as a sequence of lines. The embedded         *)
(* CommonAttributes pointer is nil in every record of the model and adds   *)
(* no attribute.                                                           *)

\* xml.Header
xmlHeader == "<?xml version=\"1.0\" encoding=\"UTF-8\"?>" \o "\n"

\* The text xml.EscapeText writes for one character.
escapeChar(c) ==
  IF c = "\"" THEN "&#34;"
  ELSE IF c = "'" THEN "&#39;"
  ELSE IF c = "&" THEN "&amp;"
  ELSE IF c = "<" THEN "&lt;"
  ELSE IF c = ">" THEN "&gt;"
  ELSE IF c = "\t" THEN "&#x9;"
  ELSE IF c = "\n" THEN "&#xA;"
  ELSE IF c = "\r" THEN "&#xD;"
  ELSE c

RECURSIVE EscapeText(_)
EscapeText(s) ==
  IF s = "" THEN "" ELSE escapeChar(SubSeq(s, 1, 1)) \o EscapeText(SubSeq(s, 2, Len(s)))

\* enc.Indent("", "  "): the indentation of a line at this depth.
indent(depth) == SubSeq("                ", 1, 2 * depth)

\* An attribute of a start tag; one tagged omitempty is left out when empty.
attr(name, value) == " " \o name \o "=\"" \o EscapeText(value) \o "\""

attrOmitEmpty(name, value) == IF value = "" THEN "" ELSE attr(name, value)

\* An element without child elements: start tag, text and end tag on a line.
element(depth, name, attrs, text) ==
  <<indent(depth) \o "<" \o name \o attrs \o ">" \o text \o "</" \o name \o ">">>

\* An element with child elements, each on lines of its own.
parent(depth, name, attrs, children) ==
  IF children = <<>> THEN element(depth, name, attrs, "")
  ELSE <<indent(depth) \o "<" \o name \o attrs \o ">">>
         \o children \o <<indent(depth) \o "</" \o name \o ">">>

RECURSIVE Flatten(_)
Flatten(seqs) == IF seqs = <<>> THEN <<>> ELSE Head(seqs) \o Flatten(Tail(seqs))

\* A struct with a chardata field only: ID, Date, Icon, Logo.
marshalValue(depth, name, x) == element(depth, name, "", EscapeText(x.Value))

marshalText(depth, name, t) ==
  element(depth, name, attrOmitEmpty("type", t.Type), EscapeText(t.Value))

marshalGenerator(depth, g) ==
  element(depth, "generator",
          attrOmitEmpty("uri", g.URI) \o attrOmitEmpty("version", g.Version),
          EscapeText(g.Value))

marshalLink(depth, l) ==
  element(depth, "link",
          attr("href", l.Href) \o attrOmitEmpty("rel", l.Rel) \o attrOmitEmpty("type", l.Type)
            \o attrOmitEmpty("hreflang", l.HrefLang) \o attrOmitEmpty("title", l.Title)
            \o attrOmitEmpty("length", l.Length),
          "")

marshalCategory(depth, c) ==
  element(depth, "category",
          attr("term", c.Term) \o attrOmitEmpty("scheme", c.Scheme)
            \o attrOmitEmpty("label", c.Label),
          "")

marshalPerson(depth, name, p) ==
  parent(depth, name, "",
         element(depth + 1, "name", "", EscapeText(p.Name))
           \o (IF p.Email = "" THEN <<>> ELSE element(depth + 1, "email", "", EscapeText(p.Email)))
           \o (IF p.URI = "" THEN <<>> ELSE element(depth + 1, "uri", "", EscapeText(p.URI))))

\* The raw markup of a Content: the field ValueXML is written as it is.
innerXML(c) == c.ValueXML

marshalContent(depth, name, c) ==
  element(depth, name,
          attrOmitEmpty("type", c.Type) \o attrOmitEmpty("src", c.Source),
          EscapeText(c.Value) \o innerXML(c))

\* The fields Feed and Source share, from Generator to Copyright, in the
\* order of the struct.
marshalMetadata(depth, x) ==
  (IF x.Generator = Nil THEN <<>> ELSE marshalGenerator(depth, x.Generator))
    \o Flatten([i \in 1..Len(x.Links) |-> marshalLink(depth, x.Links[i])])
    \o (IF x.Updated = Nil THEN <<>> ELSE marshalValue(depth, "updated", x.Updated))
    \o (IF x.Title = Nil THEN <<>> ELSE marshalText(depth, "title", x.Title))
    \o (IF x.Subtitle = Nil THEN <<>> ELSE marshalText(depth, "subtitle", x.Subtitle))
    \o (IF x.Icon = Nil THEN <<>> ELSE marshalValue(depth, "icon", x.Icon))
    \o (IF x.Logo = Nil THEN <<>> ELSE marshalValue(depth, "logo", x.Logo))
    \o Flatten([i \in 1..Len(x.Categories) |-> marshalCategory(depth, x.Categories[i])])
    \o (IF x.Author = Nil THEN <<>> ELSE marshalPerson(depth, "author", x.Author))
    \o Flatten([i \in 1..Len(x.Contributor) |->
                  marshalPerson(depth, "contributor", x.Contributor[i])])
    \o (IF x.Copyright = Nil THEN <<>> ELSE marshalText(depth, "rights", x.Copyright))

marshalSource(depth, x) ==
  parent(depth, "source", "",
         (IF x.ID = Nil THEN <<>> ELSE marshalValue(depth + 1, "id", x.ID))
           \o marshalMetadata(depth + 1, x))

marshalEntry(depth, e) ==
  parent(depth, "entry", "",
         marshalValue(depth + 1, "id", e.ID)
           \o (IF e.Title = Nil THEN <<>> ELSE marshalText(depth + 1, "title", e.Title))
           \o Flatten([i \in 1..Len(e.Links) |-> marshalLink(depth + 1, e.Links[i])])
           \o (IF e.Published = Nil THEN <<>>
               ELSE marshalValue(depth + 1, "published", e.Published))
           \o (IF e.Updated = Nil THEN <<>> ELSE marshalValue(depth + 1, "updated", e.Updated))
           \o (IF e.Author = Nil THEN <<>> ELSE marshalPerson(depth + 1, "author", e.Author))
           \o Flatten([i \in 1..Len(e.Categories) |->
                         marshalCategory(depth + 1, e.Categories[i])])
           \o (IF e.Copyright = Nil THEN <<>>
               ELSE marshalText(depth + 1, "rights", e.Copyright))
           \o Flatten([i \in 1..Len(e.Contributor) |->
                         marshalPerson(depth + 1, "contributor", e.Contributor[i])])
           \o (IF e.Source = Nil THEN <<>> ELSE marshalSource(depth + 1, e.Source))
           \o (IF e.Summary = Nil THEN <<>> ELSE marshalContent(depth + 1, "summary", e.Summary))
           \o (IF e.Content = Nil THEN <<>> ELSE marshalContent(depth + 1, "content", e.Content)))

\* The feed element with the entries ahead of the other children.
marshalFeedEntriesFirst(f) ==
  parent(0, "feed", attr("xmlns", f.Namespace),
         marshalValue(1, "id", f.ID)
           \o Flatten([i \in 1..Len(f.Entries) |-> marshalEntry(1, f.Entries[i])])
           \o marshalMetadata(1, f))

marshalFeed(f) ==
  parent(0, "feed", attr("xmlns", f.Namespace),
         marshalValue(1, "id", f.ID)
           \o marshalMetadata(1, f)
           \o Flatten([i \in 1..Len(f.Entries) |-> marshalEntry(1, f.Entries[i])]))

\* An io.Writer: what its first and its second Write return, nil or an
\* error. The documents of the model fit in the buffer of the encoder, so that
\* Encode writes twice: the header, then the document when it flushes.
Writer(first, second) == [errs |-> <<first, second>>]

\* Encode refusing a feed that does not pass Verify.
EncodeVerifying(f, w) ==
  IF FeedVerify(f) # Nil
  THEN [err |-> Errorf(VerificationErrorString(FeedVerify(f))), written |-> <<>>]
  ELSE [err     |-> w.errs[2],
        written |-> (IF w.errs[1] = Nil THEN <<xmlHeader>> ELSE <<>>)
                      \o (IF w.errs[2] = Nil THEN <<Join(marshalFeed(f), "\n")>> ELSE <<>>)]

\* f.Encode(w): the error it returns and the chunks w accepted. The result of
\* w.Write(header) is dropped; enc.Encode returns the error of its flush.
Encode(f, w) ==
  [err     |-> w.errs[2],
   written |-> (IF w.errs[1] = Nil THEN <<xmlHeader>> ELSE <<>>)
                 \o (IF w.errs[2] = Nil THEN <<Join(marshalFeed(f), "\n")>> ELSE <<>>)]

----------------------------------------------------------------------------
(* Bounds and the inputs drawn from them.                                  *)

\* Longest payload handed to NewContent, besides the GIF of the test suite.
MaxPayloadLen == 3

\* The bytes payloads are made of: 'M', 'a', 'n' and the byte 0xff.
PayloadBytes == {77, 97, 110, 255}

\* The one-pixel GIF of TestNewContent.
gif ==
  <<71, 73, 70, 56, 55, 97, 1, 0, 1, 0, 128, 0, 0, 255, 255, 255, 255, 255, 255,
    44, 0, 0, 0, 0, 1, 0, 1, 0, 0, 2, 2, 68, 1, 0, 59>>

Payloads ==
  {NilBytes, Bytes(gif)}
    \cup {Bytes(b) : b \in UNION {[1..n -> PayloadBytes] : n \in 0..MaxPayloadLen}}

ContentTypes ==
  {"", "text", "html", "xhtml",
   "text/xml", "application/xml", "text/xml-external-parsed-entity",
   "application/xml-external-parsed-entity", "application/xml-dtd",
   "image/svg+xml", "image/SVG+XML", "foo/xml", "+xml",
   "text/plain", "TEXT/Plain", "text/xmlx",
   "image/gif", "image/png", "application/xml-dtdx", "gif", "HTML", "Text", "XHTML"}

Sources == {"", "example.org", ":broken.source"}

FeedIDs == {ID(""), ID("tag:example.org,2000-02-26:blog")}

\* Instants: 2000-02-26T08:30:15Z, 2000-02-29T23:59:59Z, 2012-12-31T23:30:15Z
\* and 2001-01-01T00:00:00Z, as day number and second of the day.
Instants == {<<730175, 30615>>, <<730178, 86399>>, <<734867, 84615>>, <<730485, 0>>}

\* Zone offsets: UTC, +01:00, -08:00, +05:30.
Offsets == {0, 3600, -28800, 19800}

\* The sub-second part of a creation time, in nanoseconds.
Nanoseconds == {0, 500000000}

Times == {Time(i[1], i[2], n, off) : i \in Instants, n \in Nanoseconds, off \in Offsets}

Authorities == {"", "example.org"}

Specifics == {"", "blog"}

\* Most entries a feed holds.
MaxEntries == 2

\* URI references: none, two that parse, one that does not (Test_checkURI).
IDValues == {"", "tag:example.com,2012-12-21:blog", ":example.com"}

\* Person records: without a name, well-formed, with an unparseable email,
\* with an unparseable URI, with both.
Persons ==
  {Person("", "", ""),
   Person("Go Pher", "", "https://blog.golang.org/gopher"),
   Person("Go", "wrong.com", ""),
   Person("Go", "", ":example.com"),
   Person("Go", "wrong.com", ":example.com")}

Titles == {Nil, TextConstruct("", ""), TextConstruct("", "example.com blog")}

\* Date records: none, not RFC3339 (empty, UnixDate), the zero instant (in
\* UTC and at +01:00), and a valid date.
Dates ==
  {Nil, Date(""), Date("Fri Dec 21 08:30:15 UTC 2012"), Date("0001-01-01T00:00:00Z"),
   Date("0001-01-01T01:00:00+01:00"), Date("2012-12-21T08:30:15Z")}

FeedUpdateds == Dates \ {Date(""), Date("0001-01-01T01:00:00+01:00")}

Logos == {Nil, URIElement("https://example.com/logo.png"), URIElement(":example.com")}

Icons == {Nil, URIElement(":example.com")}

\* The entries appended to a feed, otherwise as NewEntry builds them: with a
\* well-formed author, with no author, with an author without a name, and
\* with an author but no title.
FeedEntries ==
  {[ZeroEntry EXCEPT !.ID = ID("tag:example.com,2012-12-21:blog.post-20121218083015"),
                     !.Title = ta[1], !.Author = ta[2],
                     !.Updated = Date("2012-12-18T08:30:15Z"),
                     !.Content = NewContent("html", "", Bytes(<<60, 77, 62>>))] :
     ta \in {<<TextConstruct("", "Article 1"), Person("Go Pher", "", "https://blog.golang.org/gopher")>>,
             <<TextConstruct("", "Article 1"), Nil>>,
             <<TextConstruct("", "Article 1"), Person("", "", "")>>,
             <<Nil, Person("Go Pher", "", "https://blog.golang.org/gopher")>>}}

\* The feeds without entries the caller starts from.
InitialFeeds ==
  {[ZeroFeed EXCEPT !.ID = ID(id), !.Author = a, !.Logo = l, !.Icon = i,
                    !.Title = t, !.Updated = u] :
     id \in IDValues, a \in {Nil} \cup Persons, l \in Logos, i \in Icons,
     t \in Titles, u \in FeedUpdateds}

----------------------------------------------------------------------------
(* The caller builds a feed, entry by entry, and verifies it.              *)

AppendEntry(e) ==
  /\ Len(feed.Entries) < MaxEntries
  /\ feed' = [feed EXCEPT !.Entries = Append(@, e)]
  /\ verr' = NotCalled
  /\ UNCHANGED <<entry, everr, call, ret>>

\* Feed.Verify sorting out the entries it found errors in.
CallFeedVerifyDroppingEntries ==
  /\ verr' = FeedVerify(feed)
  /\ feed' = [feed EXCEPT !.Entries =
                SelectSeq(@, LAMBDA e : EntryVerify(e) = Nil)]
  /\ UNCHANGED <<entry, everr, call, ret>>

CallFeedVerify ==
  /\ verr' = FeedVerify(feed)
  /\ UNCHANGED <<feed, entry, everr, call, ret>>

InitFeed ==
  /\ feed \in InitialFeeds
  /\ verr = NotCalled
  /\ entry = Nil
  /\ everr = NotCalled
  /\ call = NoCall
  /\ ret = Nil

NextFeed ==
  \/ \E e \in FeedEntries : AppendEntry(e)
  \/ CallFeedVerify

SpecFeed == InitFeed /\ [][NextFeed]_vars

----------------------------------------------------------------------------
(* The caller holds an entry, supplies a summary and verifies it.          *)

\* Content records as NewContent leaves them or as the caller edits them:
\* every type token of checkContent's switch, with and without src, text in
\* either slot, in both or in none, the base64 flag set or not.
EntryContents ==
  {Nil} \cup
  {Content(t, s, v, x, b) :
     t \in {"", "html", "xhtml", "gif", "image/png", "image/svg+xml"}, s \in Sources,
     v \in {"", "stuff"}, x \in {"", "<p>stuff</p>"}, b \in BOOLEAN}

\* The summaries a caller supplies: a record without text, and the summaries
\* NewContent builds for the types html and xhtml.
Summaries ==
  {Content("html", "", "", "", FALSE),
   NewContent("html", "", Bytes(<<60, 77, 62>>)),
   NewContent("xhtml", "", Bytes(<<60, 77, 62>>))}

EntryAuthors ==
  {Nil, Person("Go Pher", "", "https://blog.golang.org/gopher"),
   Person("Go", "wrong.com", ":example.com")}

EntryUpdateds == {Nil, Date("0001-01-01T00:00:00Z"), Date("2012-12-18T08:30:15Z")}

EntryPublisheds ==
  {Nil, Date("Fri Dec 21 08:30:15 UTC 2012"), Date("0001-01-01T00:00:00Z"),
   Date("2012-12-18T08:30:15Z")}

\* The entries, still without summary, the caller starts from.
InitialEntries ==
  {[ZeroEntry EXCEPT !.ID = ID(id), !.Content = c, !.Author = a, !.Title = t,
                     !.Updated = u, !.Published = pb] :
     id \in IDValues, c \in EntryContents, a \in EntryAuthors, t \in Titles,
     u \in EntryUpdateds, pb \in EntryPublisheds}

SetSummary(summary) ==
  /\ entry' = [entry EXCEPT !.Summary = summary]
  /\ everr' = NotCalled
  /\ UNCHANGED <<feed, verr, call, ret>>

CallEntryVerify ==
  /\ everr' = EntryVerify(entry)
  /\ UNCHANGED <<entry, feed, verr, call, ret>>

InitEntry ==
  /\ entry \in InitialEntries
  /\ everr = NotCalled
  /\ feed = Nil
  /\ verr = NotCalled
  /\ call = NoCall
  /\ ret = Nil

NextEntry ==
  \/ \E summary \in Summaries : SetSummary(summary)
  \/ CallEntryVerify

SpecEntry == InitEntry /\ [][NextEntry]_vars

----------------------------------------------------------------------------
(* The caller holds a feed or an entry, edits it and verifies it.          *)

InitVerify == InitFeed \/ InitEntry

NextVerify ==
  \/ feed # Nil /\ NextFeed
  \/ entry # Nil /\ NextEntry

SpecVerify == InitVerify /\ [][NextVerify]_vars

----------------------------------------------------------------------------
(* The caller's calls of the constructor functions: the arguments are      *)
(* chosen, then the function runs and returns.                             *)

NewContentCalls ==
  {[fn |-> "NewContent", contentType |-> t, source |-> s, value |-> v] :
     t \in ContentTypes, s \in Sources, v \in Payloads}

\* The first entry ID a caller builds under a feed ID: no call came before.
NewEntryIDCalls ==
  {[fn |-> "NewEntryID", feedID |-> id, entryCreationTime |-> t, previous |-> Nil] :
     id \in FeedIDs, t \in Times}

\* The Content records handed to checkContent: the records of
\* Test_checkContent and their neighbours, every type token with and without
\* src, text in either slot, in both or in none.
CheckedContents ==
  {Nil} \cup
  {Content(t, s, v, x, FALSE) :
     t \in {"", "text", "html", "xhtml", "gif", "HTML", "image/png", "image/svg+xml", "text/plain"},
     s \in Sources, v \in {"", "stuff"}, x \in {"", "<p>stuff</p>"}}

\* A call of checkContent with a record the caller wrote: it does not come
\* from a call of NewContent.
checkContentCalls ==
  {[fn |-> "checkContent", c |-> c, from |-> Nil] : c \in CheckedContents}

NewFeedIDCalls ==
  {[fn |-> "NewFeedID", authorityName |-> a, creationTime |-> t, specific |-> sp] :
     a \in Authorities, t \in Times, sp \in Specifics}

CallNewContent ==
  /\ call.fn = "NewContent"
  /\ ret = Pending
  /\ ret' = NewContent(call.contentType, call.source, call.value)
  /\ UNCHANGED <<call, feed, verr, entry, everr>>

CallNewEntryID ==
  /\ call.fn = "NewEntryID"
  /\ ret = Pending
  /\ ret' = NewEntryID(call.feedID, call.entryCreationTime)
  /\ UNCHANGED <<call, feed, verr, entry, everr>>

\* The caller builds the ID of a second entry under the same feed ID, and
\* keeps the creation time and the ID of the first.
SecondEntryID(t) ==
  /\ call.fn = "NewEntryID"
  /\ ret # Pending
  /\ call.previous = Nil
  /\ call' = [call EXCEPT !.entryCreationTime = t,
                          !.previous = [entryCreationTime |-> call.entryCreationTime,
                                        id |-> ret]]
  /\ ret' = Pending
  /\ UNCHANGED <<feed, verr, entry, everr>>

CallNewFeedID ==
  /\ call.fn = "NewFeedID"
  /\ ret = Pending
  /\ ret' = NewFeedID(call.authorityName, call.creationTime, call.specific)
  /\ UNCHANGED <<call, feed, verr, entry, everr>>

\* The caller hands the Content that NewContent returned to checkContent, as
\* Entry.Verify does with the content of an entry built by NewEntry.
CheckReturnedContent ==
  /\ call.fn = "NewContent"
  /\ ret # Pending
  /\ ret # Nil
  /\ call' = [fn |-> "checkContent", c |-> ret, from |-> call]
  /\ ret' = Pending
  /\ UNCHANGED <<feed, verr, entry, everr>>

CallCheckContent ==
  /\ call.fn = "checkContent"
  /\ ret = Pending
  /\ ret' = checkContent(call.c)
  /\ UNCHANGED <<call, feed, verr, entry, everr>>

InitCalls ==
  /\ call \in NewContentCalls \cup NewEntryIDCalls \cup NewFeedIDCalls \cup checkContentCalls
  /\ ret = Pending
  /\ feed = Nil
  /\ verr = NotCalled
  /\ entry = Nil
  /\ everr = NotCalled

NextCalls ==
  \/ CallNewContent
  \/ CallNewEntryID
  \/ \E t \in Times : SecondEntryID(t)
  \/ CallNewFeedID
  \/ CallCheckContent
  \/ CheckReturnedContent

SpecCalls == InitCalls /\ [][NextCalls]_vars

----------------------------------------------------------------------------
(* The caller builds an entry or a feed with the builders, verifies it,    *)
(* sets optional fields of the feed and encodes it.                        *)

\* The times handed to the builders: the zero Time, the zero instant in the
\* zone -08:00, half a second after the zero Time, 2012-12-18T08:30:15Z and
\* 2012-12-21T09:30:15+01:00.
BuildTimes ==
  {ZeroTime, Time(0, 0, 0, -28800), Time(0, 0, 500000000, 0),
   Time(734854, 30615, 0, 0), Time(734857, 30615, 0, 3600)}

NewDateCalls == {[fn |-> "NewDate", t |-> t] : t \in BuildTimes \cup Times}

gopher == NewPerson("Go Pher", "", "https://blog.golang.org/gopher")

\* Summary and content bytes: nil, empty, "<M>" and "It's <b>".
BuildPayloads ==
  {NilBytes, Bytes(<<>>), Bytes(<<60, 77, 62>>), Bytes(<<73, 116, 39, 115, 32, 60, 98, 62>>)}

NewEntryCall(id, title, permalink, author, updated, published, categories, summary, content) ==
  [fn |-> "NewEntry", id |-> id, title |-> title, permalink |-> permalink,
   author |-> author, updated |-> updated, published |-> published,
   categories |-> categories, summary |-> summary, content |-> content]

NewEntryCalls ==
  {NewEntryCall(ID(id), title, "https://example.com/article-1", a, u, pb, cs, sm, c) :
     id \in {"", "tag:example.com,2012-12-21:blog.post-20121218083015"},
     title \in {"", "Article 1"},
     a \in {Nil, gopher, NewPerson("Go", "wrong.com", "")},
     u \in BuildTimes, pb \in BuildTimes,
     cs \in {<<>>, <<"go", "atom">>},
     sm \in {NilBytes, Bytes(<<60, 77, 62>>)},
     c \in BuildPayloads}

\* The Entry that NewEntry returns for the arguments of the call c.
built(c) ==
  NewEntry(c.id, c.title, c.permalink, c.author, c.updated, c.published,
           c.categories, c.summary, c.content)

\* The NewEntry calls whose results go into a feed: the two articles of
\* TestNewFeed, the second without author, published time and categories,
\* and a third without title, updated half a second after the zero Time.
EntryCallLists ==
  LET article1 ==
        NewEntryCall(ID("tag:example.com,2012-12-21:blog.post-20121218083015"), "Article 1",
                     "https://example.com/article-1", gopher,
                     Time(734854, 30615, 0, 0), Time(734854, 30615, 0, 0),
                     <<"go", "atom">>, Bytes(<<60, 77, 62>>),
                     Bytes(<<73, 116, 39, 115, 32, 60, 98, 62>>))
      article2 ==
        NewEntryCall(ID("tag:example.com,2012-12-21:blog.post-20121221093015"), "Article 2",
                     "https://example.com/article-2", Nil,
                     Time(734857, 30615, 0, 3600), ZeroTime,
                     <<>>, NilBytes, Bytes(<<60, 77, 62>>))
      article3 ==
        NewEntryCall(ID("tag:example.com,2012-12-21:blog.post-3"), "",
                     "https://example.com/article-3", gopher,
                     Time(0, 0, 500000000, 0), Time(734854, 30615, 0, 0),
                     <<"atom">>, NilBytes, NilBytes)
  IN  {<<>>, <<article1>>, <<article1, article2>>, <<article2, article1>>,
       <<article1, article3>>}

\* A call of NewFeed; from holds the NewEntry calls that returned its entries.
NewFeedCalls ==
  {[fn |-> "NewFeed", id |-> ID(id), author |-> a, title |-> title, subtitle |-> sub,
    baseURL |-> "https://example.com/", feedURL |-> "https://example.com/feed.atom",
    updated |-> u, entries |-> [i \in 1..Len(from) |-> built(from[i])], from |-> from] :
     id \in {"", "tag:example.com,2012-12-21:blog"},
     a \in {Nil, gopher},
     title \in {"", "example.com blog"},
     sub \in {"", "Get the very latest news"},
     u \in BuildTimes,
     from \in EntryCallLists}

\* The optional fields a caller sets on a built feed: icon, logo, categories,
\* contributors and rights, other links, and on its first entry rights,
\* contributors and a source.
Decorations ==
  LET jane == NewPerson("Jane Doe", "jane@example.com", "")
      al   == NewPerson("Al", "", "")
  IN
  {[Icon |-> URIElement("/favicon.ico"), Logo |-> URIElement("/logo.png"),
    Categories |-> <<Category("news"), Category("tech")>>,
    Contributor |-> <<jane, al>>,
    Copyright |-> TextConstruct("", "Copyright 2012"),
    Links |-> <<Link("https://example.com/feed.atom", "self", "application/atom+xml"),
                Link("https://example.com/", "alternate", "text/html"),
                Link("https://example.com/next", "next", "")>>,
    Source |-> [ZeroSource EXCEPT !.ID = ID("tag:example.org,2000-02-26:blog"),
                                  !.Title = TextConstruct("", "example.org blog")]],
   [Icon |-> Nil, Logo |-> URIElement("/logo.png"),
    Categories |-> <<Category("tech"), Category("news"), Category("")>>,
    Contributor |-> <<al, jane>>,
    Copyright |-> TextConstruct("html", "<b>2012</b>"),
    Links |-> <<>>,
    Source |-> ZeroSource]}

\* The writers: each Write returns nil or io.ErrClosedPipe.
Writers ==
  {Writer(first, second) :
     first, second \in {Nil, Errorf("io: read/write on closed pipe")}}

CallNewDate ==
  /\ call.fn = "NewDate"
  /\ ret = Pending
  /\ ret' = NewDate(call.t)
  /\ UNCHANGED <<call, feed, verr, entry, everr>>

\* NewEntry returns, and the caller holds the entry.
CallNewEntry ==
  /\ call.fn = "NewEntry"
  /\ ret = Pending
  /\ ret' = built(call)
  /\ entry' = ret'
  /\ everr' = NotCalled
  /\ UNCHANGED <<call, feed, verr>>

\* NewFeed returns, and the caller holds the feed.
CallNewFeed ==
  /\ call.fn = "NewFeed"
  /\ ret = Pending
  /\ ret' = NewFeed(call.id, call.author, call.title, call.subtitle, call.baseURL,
                    call.feedURL, call.updated, call.entries)
  /\ feed' = ret'
  /\ verr' = NotCalled
  /\ UNCHANGED <<call, entry, everr>>

\* The caller sets optional fields of the feed NewFeed returned, before it
\* encodes the feed.
Decorate(d) ==
  /\ call.fn = "NewFeed"
  /\ ret # Pending
  /\ feed = ret
  /\ feed' = [feed EXCEPT !.Icon = d.Icon, !.Logo = d.Logo, !.Categories = d.Categories,
                          !.Contributor = d.Contributor, !.Copyright = d.Copyright,
                          !.Links = d.Links,
                          !.Entries = [i \in 1..Len(@) |->
                                         IF i = 1
                                         THEN [@[i] EXCEPT !.Copyright = d.Copyright,
                                                           !.Contributor = d.Contributor,
                                                           !.Source = d.Source]
                                         ELSE @[i]]]
  /\ verr' = NotCalled
  /\ UNCHANGED <<call, ret, entry, everr>>

\* feed.Encode(w); built keeps the NewFeed call the feed comes from, and
\* previous what the call before returned, if that was an Encode with a
\* writer that behaves the same.
CallEncode(w) ==
  /\ call.fn \in {"NewFeed", "Encode"}
  /\ ret # Pending
  /\ call' = [fn |-> "Encode", w |-> w,
              built |-> IF call.fn = "NewFeed" THEN call ELSE call.built,
              previous |-> IF call.fn = "Encode" /\ call.w = w THEN ret ELSE Nil]
  /\ ret' = Encode(feed, w)
  /\ UNCHANGED <<feed, verr, entry, everr>>

InitBuild ==
  /\ call \in NewDateCalls \cup NewEntryCalls \cup NewFeedCalls
  /\ ret = Pending
  /\ feed = Nil
  /\ verr = NotCalled
  /\ entry = Nil
  /\ everr = NotCalled

NextBuild ==
  \/ CallNewDate
  \/ CallNewEntry
  \/ entry # Nil /\ CallEntryVerify
  \/ CallNewFeed
  \/ \E d \in Decorations : Decorate(d)
  \/ feed # Nil /\ CallFeedVerify
  \/ \E w \in Writers : CallEncode(w)

SpecBuild == InitBuild /\ [][NextBuild]_vars

----------------------------------------------------------------------------
(* The caller verifies a built feed, changes one of the fields Verify does *)
(* not read, of the feed or of one of its entries, and verifies it again.  *)

\* The feeds the caller starts from, as NewFeed returns them.
EditFeeds ==
  {NewFeed(c.id, c.author, c.title, c.subtitle, c.baseURL, c.feedURL, c.updated, c.entries) :
     c \in {x \in NewFeedCalls : x.subtitle = "" /\ x.updated.off = 0}}

\* The values the caller sets a field of the feed to.
feedFieldValues(field) ==
  CASE field = "Namespace"   -> {"", "http://purl.org/atom/ns#"}
    [] field = "Generator"   -> {Nil, Generator("", "", "")}
    [] field = "Links"       -> {<<>>, <<Link(":example.com", "", "")>>}
    [] field = "Subtitle"    -> {Nil, TextConstruct("gif", "")}
    [] field = "Categories"  -> {<<Category("")>>, <<Category("go"), Category("go")>>}
    [] field = "Contributor" -> {<<NewPerson("", "wrong.com", ":example.com")>>,
                                 <<gopher, gopher>>}
    [] field = "Copyright"   -> {TextConstruct("", ""), TextConstruct("gif", "2012")}

\* The values the caller sets a field of an entry to.
entryFieldValues(field) ==
  CASE field = "Links"       -> {<<>>, <<Link(":example.com", "", "")>>}
    [] field = "Categories"  -> {<<>>, <<Category("")>>}
    [] field = "Contributor" -> {<<NewPerson("", "wrong.com", ":example.com")>>}
    [] field = "Copyright"   -> {TextConstruct("", ""), TextConstruct("gif", "2012")}
    [] field = "Source"      -> {ZeroSource,
                                 [ZeroSource EXCEPT !.ID = ID(":example.com"),
                                                    !.Author = NewPerson("", "", ""),
                                                    !.Updated = Date("")]}

\* The caller changes a field of the verified feed; before keeps what Verify
\* returned for the feed as it was. i is 0: the field is not one of an entry.
SetFeedField(field, value) ==
  /\ call = NoCall
  /\ verr # NotCalled
  /\ feed[field] # value
  /\ feed' = [feed EXCEPT ![field] = value]
  /\ call' = [fn |-> "set", field |-> field, i |-> 0, before |-> verr]
  /\ verr' = NotCalled
  /\ UNCHANGED <<ret, entry, everr>>

\* The caller changes a field of the i-th entry of the verified feed.
SetEntryField(i, field, value) ==
  /\ call = NoCall
  /\ verr # NotCalled
  /\ i <= Len(feed.Entries)
  /\ feed.Entries[i][field] # value
  /\ feed' = [feed EXCEPT !.Entries[i][field] = value]
  /\ call' = [fn |-> "set", field |-> field, i |-> i, before |-> verr]
  /\ verr' = NotCalled
  /\ UNCHANGED <<ret, entry, everr>>

InitEdit ==
  /\ feed \in EditFeeds
  /\ verr = NotCalled
  /\ entry = Nil
  /\ everr = NotCalled
  /\ call = NoCall
  /\ ret = Nil

NextEdit ==
  \/ CallFeedVerify
  \/ \E field \in {"Namespace", "Generator", "Links", "Subtitle", "Categories",
                    "Contributor", "Copyright"} :
       \E value \in feedFieldValues(field) : SetFeedField(field, value)
  \/ \E i \in 1..MaxEntries :
       \E field \in {"Links", "Categories", "Contributor", "Copyright", "Source"} :
         \E value \in entryFieldValues(field) : SetEntryField(i, field, value)

SpecEdit == InitEdit /\ [][NextEdit]_vars

----------------------------------------------------------------------------
(* Properties of Feed.Verify, checked under SpecFeed.                      *)

\* Feed.Verify has returned for the feed the caller holds.
FeedVerified == verr # NotCalled

\* The texts of the errors a Verify returned.
messages(v) == IF v = Nil THEN {} ELSE {v.Errors[i].msg : i \in 1..Len(v.Errors)}

\* Some error of v starts with prefix and holds part.
reported(v, prefix, part) ==
  \E msg \in messages(v) : HasPrefix(msg, prefix) /\ Contains(msg, part)

\* The author-existence error is among the errors of v.
authorExistenceReported(v) == reported(v, "feed: missing author field", "")

\* p is an author: a Person record with a name.
hasAuthor(p) == p # Nil /\ p.Name # ""

\* C1 as claimed: every rule of the checklist the feed violates is accounted
\* for in the error list: each feed-level rule and, inside the author record,
\* the name, the email and the URI rule, each on its own.
C1_EveryViolationReported ==
  FeedVerified =>
    /\ feed.ID.Value = "" => reported(verr, "feed: ", "ID cannot be empty")
    /\ (feed.ID.Value # "" /\ urlParse(feed.ID.Value) # Nil) =>
         reported(verr, "feed: ", "is not a valid URI")
    /\ (feed.Title = Nil \/ feed.Title.Value = "") => reported(verr, "feed: missing title", "")
    /\ feed.Updated = Nil => reported(verr, "feed: missing updated date", "")
    /\ (feed.Logo # Nil /\ feed.Logo.Value # "" /\ urlParse(feed.Logo.Value) # Nil) =>
         reported(verr, "feed: logo: ", "is not a valid URI")
    /\ (feed.Icon # Nil /\ feed.Icon.Value # "" /\ urlParse(feed.Icon.Value) # Nil) =>
         reported(verr, "feed: icon: ", "is not a valid URI")
    /\ feed.Author # Nil =>
         /\ feed.Author.Name = "" => reported(verr, "feed: author: ", "name cannot be empty")
         /\ (feed.Author.Email # "" /\ mailParseAddress(feed.Author.Email) # Nil) =>
              reported(verr, "feed: author: ", "is not a valid email address")
         /\ (feed.Author.URI # "" /\ urlParse(feed.Author.URI) # Nil) =>
              reported(verr, "feed: author: ", "is not a valid URI")

\* C2 as claimed: no author-existence error exactly when the feed has a
\* feed-level author or every one of its entries has an author, a feed with
\* zero entries included.
C2_AuthorRuleAsClaimed ==
  FeedVerified =>
    (~authorExistenceReported(verr) <=>
       \/ hasAuthor(feed.Author)
       \/ \A i \in 1..Len(feed.Entries) : hasAuthor(feed.Entries[i].Author))

\* C2, amended: no author-existence error exactly when the feed has a
\* feed-level author with a name, or has at least one entry and every one of
\* its entries has an author with a name.
C2_AuthorRule ==
  FeedVerified =>
    (~authorExistenceReported(verr) <=>
       \/ hasAuthor(feed.Author)
       \/ /\ Len(feed.Entries) > 0
          /\ \A i \in 1..Len(feed.Entries) : hasAuthor(feed.Entries[i].Author))

\* A feed without feed-level author whose two entries have authors has been
\* verified, and no author-existence error was raised.
C2_Witness ==
  /\ FeedVerified
  /\ feed.Author = Nil
  /\ Len(feed.Entries) = 2
  /\ \A i \in 1..2 : hasAuthor(feed.Entries[i].Author)
  /\ ~authorExistenceReported(verr)

\* C3: a feed with no feed-level author and no entries is rejected by the
\* author-existence check.
C3_EmptyFeedRejected ==
  (FeedVerified /\ feed.Author = Nil /\ Len(feed.Entries) = 0) =>
    (verr # Nil /\ authorExistenceReported(verr))

\* The empty Feed{} has been verified and the author-existence error raised.
C3_Witness ==
  /\ FeedVerified
  /\ feed = ZeroFeed
  /\ authorExistenceReported(verr)

----------------------------------------------------------------------------
(* Properties of Entry.Verify, checked under SpecEntry.                    *)

\* Entry.Verify has returned for the entry the caller holds.
EntryVerified == everr # NotCalled

\* The content of e is source-referenced or flagged base64-encoded.
needsSummary(e) ==
  e.Content # Nil /\ (e.Content.Source # "" \/ e.Content.base64Encoded)

\* The summary error is among the errors of v.
summaryReported(v) == reported(v, "entry: need a summary", "")

\* C4: for an entry whose content has a src attribute or is flagged
\* base64-encoded, Entry.Verify reports the summary error when the summary is
\* absent or holds no text.
C4_SummaryRequired ==
  (/\ EntryVerified
   /\ needsSummary(entry)
   /\ (entry.Summary = Nil \/ (entry.Summary.Value = "" /\ entry.Summary.ValueXML = ""))) =>
    (everr # Nil /\ summaryReported(everr))

\* An entry with base64-flagged inline content and no summary, nothing else
\* wrong, has been verified: the summary error is its only error.
C4_Witness ==
  /\ EntryVerified
  /\ entry.Content # Nil
  /\ entry.Content.Source = ""
  /\ entry.Content.base64Encoded
  /\ entry.Summary = Nil
  /\ everr # Nil
  /\ Len(everr.Errors) = 1
  /\ summaryReported(everr)

\* C5 as claimed: an entry whose only defect is the missing summary is
\* accepted once a summary with text is supplied, whichever slot of the
\* summary, Value or ValueXML, holds the text.
C5_AnySummaryAccepted ==
  (/\ EntryVerified
   /\ needsSummary(entry)
   /\ entry.Summary # Nil
   /\ (entry.Summary.Value # "" \/ entry.Summary.ValueXML # "")
   /\ messages(EntryVerify([entry EXCEPT !.Summary = Nil])) \subseteq
        {"entry: need a summary because content has src attribute set",
         "entry: need a summary because content is base64 encoded"}) =>
    everr = Nil

----------------------------------------------------------------------------
(* Properties of the content classifier and of the identifier scheme,      *)
(* checked under SpecCalls.                                                *)

\* NewContent has returned a Content.
ContentReturned == call.fn = "NewContent" /\ ret # Pending /\ ret # Nil

\* The markup bucket of the classifier, as the specification words it.
markupToken(t) ==
  \/ t = "xhtml"
  \/ t \in {"text/xml", "application/xml", "text/xml-external-parsed-entity",
            "application/xml-external-parsed-entity", "application/xml-dtd"}
  \/ HasSuffix(ToLower(t), "+xml")
  \/ HasSuffix(ToLower(t), "/xml")

\* The plain-text bucket of the classifier, as the specification words it.
plainToken(t) == t \in {"", "text", "html"} \/ HasPrefix(ToLower(t), "text/")

rfc4648Alphabet == "ABCDEFGHIJKLMNOPQRSTUVWXYZabcdefghijklmnopqrstuvwxyz0123456789+/"

sextet(i) == SubSeq(rfc4648Alphabet, i + 1, i + 1)

\* s is the standard base64 text of the bytes b: every three bytes are four
\* characters, one per group of six bits; a last group of one or two bytes is
\* padded with zero bits and closed with '='.
RECURSIVE IsStdBase64Of(_, _)
IsStdBase64Of(s, b) ==
  IF Len(b) = 0 THEN s = ""
  ELSE
    /\ Len(s) >= 4
    /\ SubSeq(s, 1, 1) = sextet(b[1] \div 4)
    /\ IF Len(b) = 1
       THEN /\ SubSeq(s, 2, 2) = sextet((b[1] % 4) * 16)
            /\ SubSeq(s, 3, Len(s)) = "=="
       ELSE /\ SubSeq(s, 2, 2) = sextet((b[1] % 4) * 16 + (b[2] \div 16))
            /\ IF Len(b) = 2
               THEN /\ SubSeq(s, 3, 3) = sextet((b[2] % 16) * 4)
                    /\ SubSeq(s, 4, Len(s)) = "="
               ELSE /\ SubSeq(s, 3, 3) = sextet((b[2] % 16) * 4 + (b[3] \div 64))
                    /\ SubSeq(s, 4, 4) = sextet(b[3] % 64)
                    /\ IsStdBase64Of(SubSeq(s, 5, Len(s)), SubSeq(b, 4, Len(b)))

\* C7: a type token of neither bucket gives the standard base64 text of the
\* payload in Value, an empty ValueXML and the base64 flag set (the GIF of the
\* test suite gives the text the test expects); the flag is set for no token
\* of the two buckets.
C7_BinaryBucket ==
  ContentReturned =>
    /\ (~markupToken(call.contentType) /\ ~plainToken(call.contentType)) =>
         /\ IsStdBase64Of(ret.Value, call.value.bytes)
         /\ call.value.bytes = gif =>
              ret.Value = "R0lGODdhAQABAIAAAP///////ywAAAAAAQABAAACAkQBADs="
         /\ ret.ValueXML = ""
         /\ ret.base64Encoded
    /\ ret.base64Encoded =>
         (~markupToken(call.contentType) /\ ~plainToken(call.contentType))

\* The reserved token in capitals, HTML, has been classified as binary.
C7_Witness ==
  /\ ContentReturned
  /\ call.contentType = "HTML"
  /\ call.value = Bytes(<<77, 97>>)
  /\ ret.Value = "TWE="
  /\ ret.base64Encoded

\* An SVG payload given inline has been classified.
SvgReturned ==
  /\ ContentReturned
  /\ call.contentType = "image/svg+xml"
  /\ call.source = ""
  /\ Len(call.value.bytes) > 0

C9_NilExactlyWhenEmpty ==
  (call.fn = "NewContent" /\ ret # Pending) =>
    /\ ret = Nil <=>
         (call.source = "" /\ (call.value.isNil \/ Len(call.value.bytes) = 0))
    /\ ret # Nil => (ret.Type = call.contentType /\ ret.Source = call.source)

\* A source with a nil payload has given a Content, not nil.
C9_Witness ==
  /\ ContentReturned
  /\ call.source = "example.org"
  /\ call.value = NilBytes
  /\ call.contentType = "image/gif"
  /\ ret.Source = "example.org"

\* C10 as claimed: the entry ID is the feed ID, then .post-, then the digits
\* YYYYMMDDhhmmss of the creation instant in UTC, whatever the zone offset the
\* time value carries.
C10_EntryIDInUTC ==
  (call.fn = "NewEntryID" /\ ret # Pending) =>
    ret.Value = call.feedID.Value \o ".post-" \o FormatStamp(UTC(call.entryCreationTime))

----------------------------------------------------------------------------
(* Properties of the identifier scheme, checked under SpecCalls.          *)

\* Two entry IDs have been built, one after the other, under one feed ID.
TwoEntryIDs == call.fn = "NewEntryID" /\ call.previous # Nil /\ ret # Pending

\* Two time values denote the same instant.
sameInstant(t, u) == t.day = u.day /\ t.sec = u.sec /\ t.nsec = u.nsec

\* Two time values show the same date and the same clock, to the second,
\* each in its own location.
sameReading(t, u) == civil(t) = civil(u)

isDateOf(s, t) ==
  /\ Len(s) = 10
  /\ SubSeq(s, 5, 5) = "-" /\ SubSeq(s, 8, 8) = "-"
  /\ isDigits(SubSeq(s, 1, 4)) /\ isDigits(SubSeq(s, 6, 7)) /\ isDigits(SubSeq(s, 9, 10))
  /\ atoi(SubSeq(s, 1, 4)) = civil(t).year
  /\ atoi(SubSeq(s, 6, 7)) = civil(t).month
  /\ atoi(SubSeq(s, 9, 10)) = civil(t).day

\* C12: NewFeedID returns tag:, the authority, a comma, the date YYYY-MM-DD
\* the time value shows, a colon and the specifier, the authority and the
\* specifier unaltered, empty ones included.
C12_FeedIDPattern ==
  (call.fn = "NewFeedID" /\ ret # Pending) =>
    LET v      == ret.Value
        before == "tag:" \o call.authorityName \o ","
        after  == ":" \o call.specific
    IN  /\ Len(v) = Len(before) + 10 + Len(after)
        /\ HasPrefix(v, before)
        /\ HasSuffix(v, after)
        /\ isDateOf(SubSeq(v, Len(before) + 1, Len(before) + 10), call.creationTime)

\* NewFeedID has returned for an empty authority and an empty specifier, and
\* for a time value whose date differs from the date of the instant in UTC.
C12_Witness ==
  /\ call.fn = "NewFeedID"
  /\ ret # Pending
  /\ call.authorityName = ""
  /\ call.specific = ""
  /\ civil(call.creationTime).day # civil(UTC(call.creationTime)).day
  /\ Len(ret.Value) = 16

\* s is the text YYYYMMDDhhmmss of the date and clock t shows in its own
\* location.
isStampOf(s, t) ==
  /\ Len(s) = 14
  /\ isDigits(s)
  /\ atoi(SubSeq(s, 1, 4)) = civil(t).year
  /\ atoi(SubSeq(s, 5, 6)) = civil(t).month
  /\ atoi(SubSeq(s, 7, 8)) = civil(t).day
  /\ atoi(SubSeq(s, 9, 10)) = civil(t).hour
  /\ atoi(SubSeq(s, 11, 12)) = civil(t).min
  /\ atoi(SubSeq(s, 13, 14)) = civil(t).sec

----------------------------------------------------------------------------
(* Properties of the content rules.                                        *)

\* One of the errors checkContent returns for content without src is among
\* the errors of v.
contentRejected(v) ==
  \/ reported(v, "entry: field ", "must be empty when using type")
  \/ reported(v, "entry: invalid mime type", "")

\* C14 as claimed, under SpecEntry: an entry whose inline content has text in
\* both slots, Value and ValueXML, is rejected for its content, whatever the
\* type token.
C14_BothSlotsRejected ==
  (/\ EntryVerified
   /\ entry.Content # Nil
   /\ entry.Content.Source = ""
   /\ entry.Content.Value # ""
   /\ entry.Content.ValueXML # "") =>
    (everr # Nil /\ contentRejected(everr))

\* checkContent has returned for a Content record.
ContentChecked == call.fn = "checkContent" /\ ret # Pending /\ call.c # Nil

\* C15, under SpecCalls: checkContent returns an error for the types empty,
\* text and html with text in ValueXML and for the type xhtml with text in
\* Value; with no src and the matching slot used, it returns none.
C15_WrongSlotRejected ==
  ContentChecked =>
    /\ (call.c.Type \in {"", "text", "html"} /\ call.c.ValueXML # "") => ret # Nil
    /\ (call.c.Type = "xhtml" /\ call.c.Value # "") => ret # Nil
    /\ (/\ call.c.Source = ""
        /\ \/ call.c.Type \in {"", "text", "html"} /\ call.c.ValueXML = ""
           \/ call.c.Type = "xhtml" /\ call.c.Value = "") => ret = Nil

\* checkContent has refused the type text with its text in ValueXML, the
\* record of the test 'valid content in wrong field'.
C15_Witness ==
  /\ ContentChecked
  /\ call.c = Content("text", "", "", "<p>stuff</p>", FALSE)
  /\ ret # Nil
  /\ Contains(ret.msg, "must be empty when using type \"text\"")

\* C16, under SpecCalls: with a src attribute, checkContent returns an error
\* if the src does not parse as a URI and if either slot holds text; with a
\* src that parses, both slots empty and a type that contains a slash it
\* returns none.
C16_SourceRule ==
  (ContentChecked /\ call.c.Source # "") =>
    /\ urlParse(call.c.Source) # Nil => ret # Nil
    /\ (call.c.Value # "" \/ call.c.ValueXML # "") => ret # Nil
    /\ (/\ urlParse(call.c.Source) = Nil
        /\ call.c.Value = "" /\ call.c.ValueXML = ""
        /\ Contains(call.c.Type, "/")) => ret = Nil

\* checkContent has refused a record with a src that parses and text in
\* Value, the record of the test 'source and content'.
C16_Witness ==
  /\ ContentChecked
  /\ call.c.Source = "example.org"
  /\ call.c.Value # ""
  /\ call.c.Type = "image/png"
  /\ ret = Errorf("invalid content: src attribute is present, therefore content must be empty")

reservedToken(t) == t \in {"", "text", "html", "xhtml"}

\* C17, under SpecCalls: without src, a type token with no slash that
\* checkContent accepts is one of text, html, xhtml or the empty one; with a
\* src, every token that is not empty and has no slash is refused.
C17_TypeTokenRule ==
  (ContentChecked /\ ~Contains(call.c.Type, "/")) =>
    /\ (call.c.Source = "" /\ ret = Nil) => reservedToken(call.c.Type)
    /\ (call.c.Source # "" /\ call.c.Type # "") => ret # Nil

\* checkContent has refused the reserved token html next to a src that
\* parses and empty slots, the record of the test 'invalid source type'.
C17_Witness ==
  /\ ContentChecked
  /\ call.c = Content("html", "example.org", "", "", FALSE)
  /\ ret = Errorf("invalid mime type: html")

----------------------------------------------------------------------------
(* Properties of Feed.Verify and Entry.Verify, checked under SpecVerify.   *)

wellDated(value) == ParseRFC3339(value).err = Nil /\ ~IsZero(ParseRFC3339(value).t)

\* The errors of the mandatory fields id, title and updated of a feed or an
\* entry x are among the errors of v, each under the prefix of the element.
mandatoryReported(x, v, prefix) ==
  /\ x.ID.Value = "" => reported(v, prefix \o "ID cannot be empty", "")
  /\ (x.ID.Value # "" /\ urlParse(x.ID.Value) # Nil) =>
       reported(v, prefix \o Quote(x.ID.Value) \o " is not a valid URI", "")
  /\ (x.Title = Nil \/ x.Title.Value = "") => reported(v, prefix \o "missing title", "")
  /\ x.Updated = Nil => reported(v, prefix \o "missing updated date", "")
  /\ (x.Updated # Nil /\ ~wellDated(x.Updated.Value)) =>
       reported(v, prefix \o "updated: invalid date", "")

\* C19: Feed.Verify reports an empty or unparseable ID, an absent or empty
\* title, and an updated date that is absent, not RFC3339 or the zero instant;
\* Entry.Verify reports the same for an entry, and a published date that is
\* present but not RFC3339 or zero; an absent published date is no error.
C19_MandatoryFields ==
  /\ (feed # Nil /\ FeedVerified) => mandatoryReported(feed, verr, "feed: ")
  /\ (entry # Nil /\ EntryVerified) =>
       /\ mandatoryReported(entry, everr, "entry: ")
       /\ (entry.Published # Nil /\ ~wellDated(entry.Published.Value)) =>
            reported(everr, "entry: published: invalid date", "")
       /\ entry.Published = Nil => ~reported(everr, "entry: published", "")

\* An entry with a valid ID, a title, a valid updated date and the zero
\* instant as published date has been verified: the published date is its
\* only error.
C19_Witness ==
  /\ entry # Nil
  /\ EntryVerified
  /\ entry.Published = Date("0001-01-01T00:00:00Z")
  /\ everr # Nil
  /\ Len(everr.Errors) = 1
  /\ reported(everr, "entry: published: invalid date", "date is zero")

\* C20 as claimed: an entry with no content element is reported by
\* Entry.Verify with an error about the content.
C20_MissingContentReported ==
  (entry # Nil /\ EntryVerified /\ entry.Content = Nil) =>
    (everr # Nil /\ reported(everr, "entry: ", "content"))

----------------------------------------------------------------------------
(* The result of Verify: when it is nil, and the order of its errors.      *)

\* No check of Entry.Verify fails for the entry e.
entryClear(e) ==
  /\ checkID(e.ID) = Nil
  /\ checkContent(e.Content) = Nil
  /\ checkPerson(e.Author) = Nil
  /\ e.Title # Nil /\ e.Title.Value # ""
  /\ e.Updated # Nil /\ checkDate(e.Updated.Value) = Nil
  /\ e.Published # Nil => checkDate(e.Published.Value) = Nil
  /\ summaryErrors(e) = <<>>

\* No check of Feed.Verify fails for the feed f, nor for any of its entries.
feedClear(f) ==
  /\ checkID(f.ID) = Nil
  /\ checkAuthorsExist(f) = Nil
  /\ checkPerson(f.Author) = Nil
  /\ f.Logo # Nil => checkURI(f.Logo.Value) = Nil
  /\ f.Icon # Nil => checkURI(f.Icon.Value) = Nil
  /\ f.Title # Nil /\ f.Title.Value # ""
  /\ f.Updated # Nil /\ checkDate(f.Updated.Value) = Nil
  /\ \A i \in 1..Len(f.Entries) : entryClear(f.Entries[i])

\* C25, under SpecVerify: Feed.Verify and Entry.Verify return nil exactly when
\* no check failed, and a result that is not nil carries at least one error.
C25_NilExactlyWhenClear ==
  /\ (feed # Nil /\ FeedVerified) =>
       /\ verr = Nil <=> feedClear(feed)
       /\ verr # Nil => Len(verr.Errors) > 0
  /\ (entry # Nil /\ EntryVerified) =>
       /\ everr = Nil <=> entryClear(entry)
       /\ everr # Nil => Len(everr.Errors) > 0

\* A feed with an author, a title, a valid date and a logo has been verified
\* and Verify returned nil.
C25_Witness ==
  /\ feed # Nil
  /\ FeedVerified
  /\ verr = Nil
  /\ feed.Logo # Nil
  /\ Len(feed.Entries) = 0

\* The place of an error of Feed.Verify in the order of its checks.
rank(msg) ==
  IF HasPrefix(msg, "feed: ID cannot be empty") \/ HasPrefix(msg, "feed: \"") THEN 1
  ELSE IF HasPrefix(msg, "feed: missing author field") THEN 2
  ELSE IF HasPrefix(msg, "feed: author: ") THEN 3
  ELSE IF HasPrefix(msg, "feed: logo: ") THEN 4
  ELSE IF HasPrefix(msg, "feed: icon: ") THEN 5
  ELSE IF HasPrefix(msg, "feed: missing title") THEN 6
  ELSE IF HasPrefix(msg, "feed: missing updated date") \/ HasPrefix(msg, "feed: updated: ") THEN 7
  ELSE IF HasPrefix(msg, "errors for entry [") THEN 8
  ELSE 0

\* The entries of a feed that fail Entry.Verify, in the order of the feed.
failingEntries(f) == SelectSeq(f.Entries, LAMBDA e : ~entryClear(e))

\* C26, under SpecFeed: the errors of Feed.Verify are the feed-level errors,
\* at most one of each kind, in the order identifier, author existence, author,
\* logo, icon, title, updated, followed by one error for every entry that
\* fails Entry.Verify, in the order of the entries and tagged with the entry.
C26_ErrorOrder ==
  (FeedVerified /\ verr # Nil) =>
    LET msgs     == [i \in 1..Len(verr.Errors) |-> verr.Errors[i].msg]
        ofFeed   == SelectSeq(msgs, LAMBDA msg : rank(msg) < 8)
        ofEntry  == SelectSeq(msgs, LAMBDA msg : rank(msg) = 8)
        failing  == failingEntries(feed)
    IN  /\ \A i \in 1..Len(msgs) : rank(msgs[i]) > 0
        /\ msgs = ofFeed \o ofEntry
        /\ \A i \in 1..Len(ofFeed) : \A j \in 1..Len(ofFeed) :
             i < j => rank(ofFeed[i]) < rank(ofFeed[j])
        /\ Len(ofEntry) = Len(failing)
        /\ \A k \in 1..Len(failing) :
             HasPrefix(ofEntry[k], "errors for entry [" \o EntryString(failing[k]) \o "]\n")

\* A feed with feed-level errors and two failing entries, the first without
\* title and the second with a nameless author, has been verified.
C26_Witness ==
  /\ FeedVerified
  /\ verr # Nil
  /\ Len(feed.Entries) = 2
  /\ feed.Entries[1].Title = Nil
  /\ feed.Entries[2].Author = Person("", "", "")
  /\ Len(verr.Errors) >= 5
  /\ rank(verr.Errors[Len(verr.Errors)].msg) = 8
  /\ rank(verr.Errors[Len(verr.Errors) - 1].msg) = 8

----------------------------------------------------------------------------
(* The Content NewContent returns and checkContent, under SpecCalls.       *)

\* C30: a Content returned by NewContent has text in at most one of its slots
\* Value and ValueXML and has the base64 flag only with an empty ValueXML; and
\* checkContent returns no error for a Content that NewContent built with an
\* empty source and a type token that is reserved or contains a slash.
C30_ClassifierOutput ==
  /\ ContentReturned =>
       /\ ~(ret.Value # "" /\ ret.ValueXML # "")
       /\ ret.base64Encoded => ret.ValueXML = ""
  /\ (/\ call.fn = "checkContent"
      /\ call.from # Nil
      /\ ret # Pending
      /\ call.from.source = ""
      /\ (reservedToken(call.from.contentType) \/ Contains(call.from.contentType, "/"))) =>
       ret = Nil

\* checkContent has accepted the Content NewContent built for the type xhtml
\* and the payload 'Man'.
C30_Witness ==
  /\ call.fn = "checkContent"
  /\ call.from # Nil
  /\ call.from.contentType = "xhtml"
  /\ call.from.source = ""
  /\ call.c.ValueXML = "Man"
  /\ call.c.Value = ""
  /\ ret = Nil

----------------------------------------------------------------------------
(* The builders, under SpecBuild.                                          *)

\* NewEntry has returned the entry the caller holds, and Entry.Verify has
\* returned for it.
BuiltEntryVerified == call.fn = "NewEntry" /\ ret # Pending /\ everr # NotCalled

\* p is nil, or has a name and an email and a URI that are empty or parse.
nilOrWellFormed(p) ==
  \/ p = Nil
  \/ /\ p.Name # ""
     /\ (p.Email = "" \/ mailParseAddress(p.Email) = Nil)
     /\ (p.URI = "" \/ urlParse(p.URI) = Nil)

\* C28 as claimed: an entry NewEntry returns for an ID that is not empty and
\* parses as a URI, a title that is not empty, an updated time that is not
\* the zero time and an author that is nil or well-formed passes
\* Entry.Verify, whatever the published time, the categories and the summary
\* and content bytes.
C28_BuilderOutputVerifies ==
  (/\ BuiltEntryVerified
   /\ call.id.Value # "" /\ urlParse(call.id.Value) = Nil
   /\ call.title # ""
   /\ ~IsZero(call.updated)
   /\ nilOrWellFormed(call.author)) =>
    everr = Nil

----------------------------------------------------------------------------
(* The serializer, under SpecBuild.                                        *)

\* Encode has returned for the feed the caller holds.
Encoded == call.fn = "Encode" /\ ret # Pending

\* Encode has returned and the writer took the document.
DocumentWritten == Encoded /\ call.w.errs[2] = Nil

\* The document the writer took last.
document == ret.written[Len(ret.written)]

\* The members of a finite set of numbers, in ascending order.
RECURSIVE ascending(_)
ascending(S) ==
  IF S = {} THEN <<>>
  ELSE LET least == CHOOSE x \in S : \A y \in S : x <= y
       IN  <<least>> \o ascending(S \ {least})

\* The lines of a text.
Lines(s) ==
  LET cuts == <<0>> \o ascending({i \in 1..Len(s) : SubSeq(s, i, i) = "\n"}) \o <<Len(s) + 1>>
  IN  [j \in 1..(Len(cuts) - 1) |-> SubSeq(s, cuts[j] + 1, cuts[j + 1] - 1)]

\* The lines of a text that start with a prefix, in their order.
linesWith(s, prefix) == SelectSeq(Lines(s), LAMBDA line : HasPrefix(line, prefix))

\* The text v is the RFC3339 rendering of the time t: it parses as RFC3339,
\* to the second and the zone offset of t.
rendersRFC3339(v, t) ==
  /\ ParseRFC3339(v).err = Nil
  /\ ParseRFC3339(v).t = Time(t.day, t.sec, 0, t.off)

\* How many of the NewEntry calls in from have a time in field that is not
\* the zero time.
dated(from, field) == Cardinality({i \in 1..Len(from) : ~IsZero(from[i][field])})

\* C21: NewDate returns no Date for the zero time and otherwise a Date whose
\* value is the RFC3339 rendering of the time; an entry or a feed built with
\* a zero updated or published time carries no such Date, and the document
\* Encode writes holds an updated or a published element exactly for the
\* times that were not zero.
C21_DateOmission ==
  /\ (call.fn = "NewDate" /\ ret # Pending) =>
        IF IsZero(call.t) THEN ret = Nil
        ELSE ret # Nil /\ rendersRFC3339(ret.Value, call.t)
  /\ (call.fn = "NewEntry" /\ ret # Pending) =>
        /\ IsZero(call.updated) => ret.Updated = Nil
        /\ IsZero(call.published) => ret.Published = Nil
  /\ (call.fn = "NewFeed" /\ ret # Pending) =>
        (IsZero(call.updated) => ret.Updated = Nil)
  /\ DocumentWritten =>
        /\ Len(linesWith(document, "  <updated>")) = dated(<<call.built>>, "updated")
        /\ Len(linesWith(document, "    <updated>")) = dated(call.built.from, "updated")
        /\ Len(linesWith(document, "    <published>")) = dated(call.built.from, "published")

\* A feed built with the zero time as its updated time, of two entries, the
\* second built with the zero time as its published time, has been encoded:
\* the document holds no updated element of the feed and one published
\* element.
C21_Witness ==
  /\ DocumentWritten
  /\ IsZero(call.built.updated)
  /\ Len(call.built.from) = 2
  /\ IsZero(call.built.from[2].published)
  /\ ~IsZero(call.built.from[1].published)
  /\ Len(linesWith(document, "  <updated>")) = 0
  /\ Len(linesWith(document, "    <published>")) = 1

\* The children of the feed element, in the order of the fields of Feed.
childOrder ==
  <<"id", "generator", "link", "updated", "title", "subtitle", "icon", "logo",
    "category", "author", "contributor", "rights", "entry">>

\* The line starts or ends an element named tag, one level below the root.
isChild(line, tag) ==
  \/ HasPrefix(line, "  <" \o tag \o ">")
  \/ HasPrefix(line, "  <" \o tag \o " ")
  \/ line = "  </" \o tag \o ">"

\* The place in childOrder of the child a line belongs to; 0 if it is none.
childRank(line) ==
  IF \E k \in 1..Len(childOrder) : isChild(line, childOrder[k])
  THEN CHOOSE k \in 1..Len(childOrder) : isChild(line, childOrder[k])
  ELSE 0

\* The lines one level below the root: indented by two spaces, not more.
childLines(s) ==
  SelectSeq(Lines(s), LAMBDA line : HasPrefix(line, "  <") /\ ~HasPrefix(line, "   "))

\* C22: Encode writes the XML declaration first, then the feed element; the
\* children of the feed element come in the order id, generator, links,
\* updated, title, subtitle, icon, logo, categories, author, contributors,
\* rights, entries, and the links, the categories and the entries in the
\* order of the sequences of the feed.
C22_SerializationOrder ==
  DocumentWritten =>
    LET lines      == Lines(document)
        children   == childLines(document)
        links      == linesWith(document, "  <link ")
        categories == linesWith(document, "  <category ")
        entryIDs   == linesWith(document, "    <id>")
    IN  /\ call.w.errs[1] = Nil =>
              ret.written = <<"<?xml version=\"1.0\" encoding=\"UTF-8\"?>" \o "\n", document>>
        /\ HasPrefix(lines[1], "<feed xmlns=\"")
        /\ lines[Len(lines)] = "</feed>"
        /\ childRank(children[1]) = 1
        /\ \A j \in 1..Len(children) : childRank(children[j]) # 0
        /\ \A j \in 1..(Len(children) - 1) :
              childRank(children[j]) <= childRank(children[j + 1])
        /\ Len(links) = Len(feed.Links)
        /\ \A j \in 1..Len(links) :
              HasPrefix(links[j], "  <link href=\"" \o feed.Links[j].Href \o "\"")
        /\ Len(categories) = Len(feed.Categories)
        /\ \A j \in 1..Len(categories) :
              HasPrefix(categories[j], "  <category term=\"" \o feed.Categories[j].Term \o "\"")
        /\ Len(entryIDs) = Len(feed.Entries)
        /\ \A j \in 1..Len(entryIDs) :
              entryIDs[j] = "    <id>" \o feed.Entries[j].ID.Value \o "</id>"

\* A feed with every optional field set, three links, two categories, two
\* contributors and two entries has been encoded, and the document holds a
\* child of every kind.
C22_Witness ==
  /\ DocumentWritten
  /\ call.w.errs[1] = Nil
  /\ feed.Icon # Nil /\ feed.Logo # Nil /\ feed.Copyright # Nil /\ feed.Author # Nil
  /\ feed.Updated # Nil
  /\ Len(feed.Links) = 3 /\ Len(feed.Categories) = 2 /\ Len(feed.Contributor) = 2
  /\ Len(feed.Entries) = 2
  /\ {childRank(childLines(document)[j]) : j \in 1..Len(childLines(document))}
       = 1..Len(childOrder)

\* C23: Encode does not validate. Whatever the feed, and whatever Verify
\* said of it, Encode into a writer that accepts every write returns nil
\* after it wrote the declaration and the document of this feed; an error
\* Encode returns is an error of the writer.
C23_EncodeDoesNotValidate ==
  Encoded =>
    /\ call.w = Writer(Nil, Nil) =>
          /\ ret.err = Nil
          /\ Len(ret.written) = 2
          /\ HasPrefix(ret.written[1], "<?xml ")
          /\ HasPrefix(ret.written[2], "<feed xmlns=\"")
          /\ HasSuffix(ret.written[2], "</feed>")
          /\ linesWith(ret.written[2], "  <id>") = <<"  <id>" \o feed.ID.Value \o "</id>">>
    /\ ret.err # Nil => \E i \in 1..2 : call.w.errs[i] = ret.err

\* Feed.Verify has returned errors for a feed, and Encode has written the
\* feed and returned nil.
C23_Witness ==
  /\ Encoded
  /\ verr # NotCalled /\ verr # Nil
  /\ call.w = Writer(Nil, Nil)
  /\ ret.err = Nil
  /\ Len(ret.written) = 2

C27_SinkFailureReported ==
  (Encoded /\ \E i \in 1..2 : call.w.errs[i] # Nil) => ret.err # Nil

----------------------------------------------------------------------------
(* The fields Feed.Verify does not read, under SpecEdit.                   *)

\* The number of errors a Verify returned.
errorCount(v) == IF v = Nil THEN 0 ELSE Len(v.Errors)

\* Feed.Verify has returned for the feed both before and after the change
\* of a field.
ReVerified == call.fn = "set" /\ verr # NotCalled

\* C29: a change of the namespace, the generator, the links, the subtitle,
\* the categories, the contributors or the rights of a feed, or of the
\* links, the categories, the contributors, the rights or the source of one
\* of its entries, changes neither whether Feed.Verify accepts the feed nor
\* the number of errors it returns.
C29_IgnoredFields ==
  ReVerified =>
    /\ (verr = Nil) <=> (call.before = Nil)
    /\ errorCount(verr) = errorCount(call.before)

\* A feed Feed.Verify accepted has lost its links and is accepted again.
C29_Witness ==
  /\ ReVerified
  /\ call.field = "Links" /\ call.i = 0
  /\ Len(feed.Links) = 0
  /\ call.before = Nil
  /\ verr = Nil

====
